---------------------------- MODULE Spec2Model ----------------------------
(***************************************************************************)
(* Worklog aggregation engine: backend/app/worklog_fetcher.py,             *)
(* get_team_worklog and its nested helpers, together with the Jira client  *)
(* calls it makes (backend/app/jira_client.py).                            *)
(*                                                                         *)
(* One invocation of get_team_worklog is modelled as a sequential state    *)
(* machine.  pc is the position in the function; every upstream answer     *)
(* (status code, page content, record fields) is chosen nondeterministically*)
(* when the code reads it.  A list returned by an upstream has its length  *)
(* fixed when the response arrives and its records drawn when the code's   *)
(* loop reaches them.                                                      *)
(***************************************************************************)
EXTENDS Integers, Sequences, FiniteSets, TLC

(***************************************************************************)
(* Bounds of the model.                                                    *)
(***************************************************************************)
\* Records all upstreams together deliver during one invocation.
MaxRecords == 2
\* Pages an upstream that delivers records is willing to continue a pagination for.
MaxPages == 2
\* Pages beyond HardCap that an upstream delivering no records is willing to
\* continue a pagination for.
ExtraPages == 1

(***************************************************************************)
(* Program constants.                                                      *)
(***************************************************************************)
\* `if safety > 50: break` and `for _ in range(50)`.
HardCap == 50
\* chunk_size of the worklog/list hydration.
chunk_size == 1000
\* Teamboard page size requested.
limit == 100
max_users_to_check == 20
max_issues_to_check == 300

(***************************************************************************)
(* The invocation's inputs.                                                *)
(***************************************************************************)
\* users = db.query(User)...all(): rows in the order the query returned them.
\* The third user has no jira_account_id.
users ==
    << [id |-> 1, jira_account_id |-> "a1"],
       [id |-> 2, jira_account_id |-> "a2"],
       [id |-> 3, jira_account_id |-> ""] >>

UserIds == { users[i].id : i \in DOMAIN users }

\* user_by_account_id = {u.jira_account_id: u for u in users if u.jira_account_id}
TrackedAccounts ==
    { users[i].jira_account_id : i \in { j \in DOMAIN users : users[j].jira_account_id # "" } }

\* A lookup that answers the first user whatever the account id.
first_user(acc) == users[1].id

user_by_account_id(acc) ==
    users[CHOOSE i \in DOMAIN users : users[i].jira_account_id = acc].id

\* start_date.date() and end_date.date(), as day numbers: a single-day window, as
\* "today", "yesterday" and "previous_workday" give.
Window == [start |-> 2, end |-> 2]

\* Calendar days an upstream record may carry: the window and a day on each side.
Days == (Window.start - 1) .. (Window.end + 1)

(***************************************************************************)
(* Optional values: None is the empty sequence, a value x is <<x>>.        *)
(***************************************************************************)
None == << >>
Some(x) == << x >>

(***************************************************************************)
(* Upstream values.                                                        *)
(***************************************************************************)
\* A change marker's worklogId: an integer, or anything else (isInt = FALSE).
WorklogIds == { [isInt |-> TRUE, v |-> 1], [isInt |-> TRUE, v |-> 2], [isInt |-> FALSE, v |-> 0] }

\* payload["values"] of one change-feed page.
PageValues ==
    { << >> } \cup { << a >> : a \in WorklogIds } \cup { << a, b >> : a, b \in WorklogIds }

\* payload["until"] of a page answered while the cursor is since: missing, not an
\* integer, or an integer around the cursor.
UntilValues(since) ==
    { [kind |-> "missing", v |-> 0], [kind |-> "str", v |-> 0] }
        \cup { [kind |-> "int", v |-> u] : u \in (since - 1) .. (since + 1) }

\* author.accountId of a tracker worklog record; "missing": no author or no
\* accountId; "null": author is JSON null; "bad": author is not an object.
AuthorValues == TrackedAccounts \cup { "ax", "missing", "null", "bad" }

\* started: missing or empty, not a timestamp, or a timestamp of calendar day d.
StartedValues ==
    { [kind |-> "missing", day |-> 0], [kind |-> "bad", day |-> 0] }
        \cup { [kind |-> "ts", day |-> d] : d \in Days }

\* An integer too large for a float (above about 1.8e308): JSON carries integers
\* of any size and Python reads them as int.
BeyondFloat == 1000

\* timeSpentSeconds: an integer (negative, positive, or beyond the float range),
\* absent, JSON null, or a non-numeric string.
SecondsValues ==
    { [kind |-> "int", v |-> n] : n \in { -1, 1, BeyondFloat } }
        \cup { [kind |-> k, v |-> 0] : k \in { "missing", "null", "str" } }

\* Work item keys the legacy discovery may find.
IssueKeys == { "K1", "K2" }

\* One answer of search/jql: the keys of the issues that carry one, and whether
\* the list also holds an issue without a key.
DiscoveryPages == [ keys : SUBSET IssueKeys, keyless : BOOLEAN ]

\* hour of an hour-based timesheet record: n half-seconds (n / 7200 hours), absent,
\* or a value float() rejects.
HourValues ==
    { [kind |-> "num", n |-> n] : n \in { -2, 1, 2 } }
        \cup { [kind |-> k, n |-> 0] : k \in { "missing", "bad" } }

\* assignee of a timesheet record.
AssigneeValues == TrackedAccounts \cup { "ax", "missing" }

\* date of a timesheet record: absent, or the text of a calendar day in the window
\* or after it.
DateValues == { None, Some(Window.start), Some(Window.end + 1) }

\* A record of the hour-based timesheet; text is "bad" when summary or
\* logtimeType is a non-empty value that is not a string.
DevRecords ==
    [ assignee : AssigneeValues, date : DateValues, hour : HourValues, text : { "ok", "bad" } ]

\* issueId of a paginated-timesheet record: an integer, a string of decimal digits,
\* a string isdigit() accepts and int() rejects (such as a superscript digit),
\* another non-empty string, the empty string, or null/absent.
IssueIdValues ==
    { [kind |-> k, n |-> 7] : k \in { "int", "digits" } }
        \cup { [kind |-> k, n |-> 0] : k \in { "superscript", "text", "empty", "null" } }

\* A record of the paginated timesheet; text is "bad" when type or notes is a
\* non-empty value that is not a string.
TbRecords ==
    [ assignee : AssigneeValues, date : DateValues, issueId : IssueIdValues,
      timeSpentSeconds : SecondsValues, text : { "ok", "bad" } ]

\* The account ids a 403 body may name as invalid: some of the tracked ones, or
\* one that no request carried.
NamedIds == (SUBSET TrackedAccounts) \cup { { "ax" } }

\* The offset a served page echoes, and the limit the service echoes on its pages:
\* none, or a smaller one than requested that it enforces.
EchoedOffsets(offset) == { None, Some(offset) }
EchoedLimits == { None, Some(limit \div 2) }

\* A worklog record of the primary tracker (worklog/list, issue/{key}/worklog).
WorklogRecords ==
    [ author : AuthorValues, started : StartedValues, timeSpentSeconds : SecondsValues ]

(***************************************************************************)
(* Pure helpers of the source.                                             *)
(***************************************************************************)
\* since_ms of the first change-feed request: window start minus two days.
InitialSince == Window.start - 2

\* `if wl_dt.date() < start_date.date() or wl_dt.date() > end_date.date(): continue`
OutsideWindow(d) == d < Window.start \/ d > Window.end

\* The loop over payload["values"] without seen_ids: every integer id is appended.
RECURSIVE AppendAllIds(_, _)
AppendAllIds(ids, values) ==
    IF values = << >> THEN ids
    ELSE AppendAllIds(IF Head(values).isInt THEN Append(ids, Head(values).v) ELSE ids,
                      Tail(values))

\* The ids of one page added to worklog_ids: integers not seen before, in order.
RECURSIVE AppendNewIds(_, _)
AppendNewIds(ids, values) ==
    IF values = << >> THEN ids
    ELSE LET wid == Head(values)
             seen == { ids[i] : i \in DOMAIN ids }
         IN  AppendNewIds(IF wid.isInt /\ wid.v \notin seen THEN Append(ids, wid.v) ELSE ids,
                          Tail(values))

\* FeedMustStop that lets an `until` equal to the cursor pass.
FeedMustStopBelow(until, since) == until.kind # "int" \/ until.v < since

\* FeedMustStop without the comparison with the cursor.
FeedMustStopOnType(until, since) == until.kind # "int"

\* `if not isinstance(until_ms, int) or until_ms <= since_ms: break`
FeedMustStop(until, since) == until.kind # "int" \/ until.v <= since

\* float(n) raises OverflowError: n is beyond the float range.
FloatOverflows(n) == 2 * n >= BeyondFloat \/ 2 * n <= -BeyondFloat

\* user_data["total_seconds"] += seconds
AddSeconds(uw, uid, entry) ==
    [uw EXCEPT ![uid].total_seconds = @ + entry.time_spent_seconds]

\* user_data["total_hours"] = user_data["total_seconds"] / 3600.0 raises.
MergeOverflows(uw, uid, entry) ==
    FloatOverflows(AddSeconds(uw, uid, entry)[uid].total_seconds)

\* One pass of a merge loop that runs to its end:
\* total_seconds += seconds; total_hours = ...; entries.append(entry)
MergeEntry(uw, uid, entry) ==
    [AddSeconds(uw, uid, entry) EXCEPT ![uid].entries = Append(@, entry)]

\* The per-user aggregates as initialised before any source is read.
EmptyWorklog == [uid \in UserIds |-> [total_seconds |-> 0, entries |-> << >>]]

\* int(wl.get("timeSpentSeconds") or 0) of the primary path, for a value that int() accepts.
IntOrZero(secs) == IF secs.kind = "int" THEN secs.v ELSE 0

\* What the primary path's normalisation loop does with one hydrated record:
\* "raise" (the exception abandons the primary path), "skip" (continue) or "keep".
PrimaryOutcome(wl) ==
    IF wl.author = "bad" THEN "raise"
    ELSE IF wl.author \notin TrackedAccounts THEN "skip"
    ELSE IF wl.started.kind = "missing" THEN "skip"
    ELSE IF wl.started.kind = "bad" THEN "skip"
    ELSE IF OutsideWindow(wl.started.day) THEN "skip"
    ELSE IF wl.timeSpentSeconds.kind = "str" THEN "raise"
    ELSE "keep"

\* The entry the primary path appends for a kept record.
PrimaryEntry(wl) ==
    [ source |-> "primary",
      account_id |-> wl.author,
      worklog_date |-> Some(wl.started.day),
      time_spent_seconds |-> IntOrZero(wl.timeSpentSeconds),
      issue_ref |-> "none" ]

\* account_ids = [u.jira_account_id for u in users if u.jira_account_id]
HasAccount(u) == u.jira_account_id # ""
account_ids ==
    LET with == SelectSeq(users, HasAccount)
    IN  [ i \in 1 .. Len(with) |-> with[i].jira_account_id ]

\* A sequence that is not cut.
NotTruncated(seq, n) == seq

\* seq[:n]
Truncate(seq, n) == SubSeq(seq, 1, IF Len(seq) < n THEN Len(seq) ELSE n)

\* account_ids[:max_users_to_check]
account_ids_to_check == Truncate(account_ids, max_users_to_check)

\* list(S): the elements of a set in some order.
Orderings(S) ==
    { q \in [ 1 .. Cardinality(S) -> S ] : { q[i] : i \in DOMAIN q } = S }

\* What the legacy merge loop does with one worklog record of a fetched issue:
\* "raise" (nothing catches it: the exception leaves get_team_worklog), "skip" or "keep".
LegacyOutcome(wl) ==
    IF wl.author \in { "null", "bad" } THEN "raise"
    ELSE IF wl.author \notin TrackedAccounts THEN "skip"
    ELSE IF wl.started.kind = "bad" THEN "skip"
    ELSE IF wl.started.kind = "ts" /\ OutsideWindow(wl.started.day) THEN "skip"
    ELSE IF wl.timeSpentSeconds.kind \in { "null", "str" } THEN "raise"
    ELSE "keep"

\* The entry the legacy path appends for a kept record.
LegacyEntry(wl) ==
    [ source |-> "legacy",
      account_id |-> wl.author,
      worklog_date |-> IF wl.started.kind = "ts" THEN Some(wl.started.day) ELSE None,
      time_spent_seconds |-> IntOrZero(wl.timeSpentSeconds),
      issue_ref |-> "none" ]

\* _coerce_issue_id without its branch for strings.
_coerce_issue_id_ints_only(value) ==
    IF value.kind = "int" THEN Some(value.n) ELSE None

\* _coerce_issue_id: an int as it is, a string of digits as int(s), None otherwise
\* (also when int(s) raises).
_coerce_issue_id(value) ==
    IF value.kind = "int" THEN Some(value.n)
    ELSE IF value.kind = "digits" THEN Some(value.n)
    ELSE None

\* round(x) for x = n / 2: Python rounds a half to the even neighbour.
RoundHalf(n) ==
    LET q == n \div 2
    IN  IF n % 2 = 0 THEN q ELSE IF q % 2 = 0 THEN q ELSE q + 1

\* hours = tl.get("hour") or 0; seconds = int(round(float(hours) * 3600)), 0 on error
HourSeconds(hour) == IF hour.kind = "num" THEN RoundHalf(hour.n) ELSE 0

\* What the hour-based adapter's loop does with one record.
DevOutcome(tl) ==
    IF tl.assignee \notin TrackedAccounts THEN "skip"
    ELSE IF tl.date = None THEN "skip"
    ELSE IF HourSeconds(tl.hour) <= 0 THEN "skip"
    ELSE IF tl.text = "bad" THEN "raise"
    ELSE "keep"

DevEntry(tl) ==
    [ source |-> "devsamurai",
      account_id |-> tl.assignee,
      worklog_date |-> tl.date,
      time_spent_seconds |-> HourSeconds(tl.hour),
      issue_ref |-> "none" ]

\* seconds = tl.get("timeSpentSeconds") or 0; seconds = int(seconds), 0 on error
TbSeconds(secs) == IF secs.kind = "int" THEN secs.v ELSE 0

\* What the paginated adapter's filter loop does with one record.
TbOutcome(tl) ==
    IF tl.assignee \notin TrackedAccounts THEN "skip"
    ELSE IF tl.date = None THEN "skip"
    ELSE IF _coerce_issue_id(tl.issueId) # None THEN "skip_issue"
    ELSE IF TbSeconds(tl.timeSpentSeconds) <= 0 THEN "skip"
    ELSE IF tl.text = "bad" THEN "raise"
    ELSE "keep"

\* `if raw_issue_id not in (None, "") and issue_id is None`
NonNumericIssueId(tl) ==
    tl.issueId.kind \notin { "null", "empty" } /\ _coerce_issue_id(tl.issueId) = None

\* The item appended to normalized_tb, as the entry the merge loop makes of it;
\* issue_ref tells whether the record's raw issueId was an integer or a string of
\* decimal digits.
TbEntry(tl) ==
    [ source |-> "teamboard",
      account_id |-> tl.assignee,
      worklog_date |-> tl.date,
      time_spent_seconds |-> TbSeconds(tl.timeSpentSeconds),
      issue_ref |-> IF tl.issueId.kind \in { "int", "digits" } THEN "numeric" ELSE "none" ]

\* RemoveInvalid that filters nothing out.
RemoveInvalidKeepsAll(active, invalid) == active

\* invalid_ids parsed from the 403 body: active_user_ids without them, order kept.
RemoveInvalid(active, invalid) ==
    LET Valid(uid) == uid \notin invalid
    IN  SelectSeq(active, Valid)

\* An offset that advances by the requested limit whatever the service echoes.
NextOffsetByRequestedLimit(offset, echoedOffset, echoedLimit) == offset + limit

\* offset = int(payload.get("offset") or offset) + int(payload.get("limit") or limit)
NextOffset(offset, echoedOffset, echoedLimit) ==
    (IF echoedOffset = None \/ echoedOffset = Some(0) THEN offset ELSE echoedOffset[1])
    + (IF echoedLimit = None \/ echoedLimit = Some(0) THEN limit ELSE echoedLimit[1])

\* sorted(user_worklog.values(), key=lambda x: x["total_seconds"], reverse=True),
\* as the user ids in output order: a stable sort of the users in the order
\* their aggregates were created.
\* A sort that is not stable: a later user overtakes an earlier one of equal total.
RECURSIVE InsertSortedUnstable(_, _, _)
InsertSortedUnstable(uw, uid, sorted) ==
    IF sorted = << >> THEN << uid >>
    ELSE IF uw[Head(sorted)].total_seconds > uw[uid].total_seconds
         THEN << Head(sorted) >> \o InsertSortedUnstable(uw, uid, Tail(sorted))
         ELSE << uid >> \o sorted

RECURSIVE InsertSorted(_, _, _)
InsertSorted(uw, uid, sorted) ==
    IF sorted = << >> THEN << uid >>
    ELSE IF uw[Head(sorted)].total_seconds >= uw[uid].total_seconds
         THEN << Head(sorted) >> \o InsertSorted(uw, uid, Tail(sorted))
         ELSE << uid >> \o sorted

RECURSIVE SortFrom(_, _, _)
SortFrom(uw, i, sorted) ==
    IF i > Len(users) THEN sorted
    ELSE SortFrom(uw, i + 1, InsertSorted(uw, users[i].id, sorted))

\* A result that leaves out the users nothing was logged for.
SortedUsersWithEntries(uw) ==
    LET HasEntries(uid) == uw[uid].entries # << >>
    IN  SelectSeq(SortFrom(uw, 1, << >>), HasEntries)

SortedUsers(uw) == SortFrom(uw, 1, << >>)

(***************************************************************************)
(* State.                                                                  *)
(***************************************************************************)
VARIABLES
    pc,             \* position in get_team_worklog
    user_worklog,   \* user id -> [total_seconds, entries]
    debug_out,      \* debug_out["sources"]: adapter -> what was recorded
    result,         \* the returned list (user ids in output order), once returned
    feed,           \* locals of _get_worklogs_via_updated
    raw_left,       \* hydrated records the normalisation loop has not reached yet
    normalized,     \* normalized (primary path)
    idx,            \* position of the running merge loop
    legacy,         \* locals of the legacy collector
    tb,             \* locals of _fetch_teamboard_timelogs and of the filter loop
    settings,       \* the timesheet credentials, once the code has read them
    path,           \* "primary" until the primary path raises, then "legacy"
    budget,         \* records the upstreams may still deliver
    patience,       \* answers of a kind (pages with more to come, rejections naming
                    \* ids) an upstream is willing to continue a pagination for
    window,         \* the date-window computation: days, now and what came of them
    pool,           \* a ThreadPoolExecutor fan-out: its tasks and the table they fill
    http,           \* one outbound HTTP call: its attempts and answers
    access          \* the team, credential and member rows the invocation resolves

vars == << pc, user_worklog, debug_out, result, feed, raw_left, normalized, idx,
           legacy, tb, settings, path, budget, patience, window, pool, http,
           access >>

\* requests counts the change-feed requests sent; sent is the `since` of the last
\* request and answer what the feed answered to it (lastPage, until, values).
FeedStart ==
    [ safety |-> 0, since_ms |-> InitialSince, worklog_ids |-> << >>, i |-> 0,
      requests |-> 0, sent |-> None, answer |-> None ]

\* appended lists, for the entries the merge loop has appended so far, the user
\* and the "issue_key" of each (the element of issues_to_check it was fetched for).
\* While the per-user loop runs, answer is what the last worklogAuthor query came
\* to (ok is FALSE when it raised) and failed tells whether any query has raised.
LegacyStart ==
    [ account_ids |-> account_ids,
      acc_idx |-> 1, all_issues_set |-> { }, use_worklog_author |-> FALSE,
      answer |-> None, failed |-> FALSE,
      next_token |-> "", team_requests |-> 0,
      issues_to_check |-> << >>, issue_worklogs |-> << >>, appended |-> << >> ]

\* passes counts the passes of `for _ in range(50)` begun, each of which sends one
\* request; rejections counts the 403 answers among them that named invalid ids;
\* invalid is the id set parsed from the last answer when that was such a 403;
\* dropped counts the records of served pages that were discarded with `out`;
\* streak tells how many rejections in a row the request of the current offset
\* has met: none, one, or two and more (2).
TbStart ==
    [ offset |-> 0, active_user_ids |-> account_ids, out |-> 0, passes |-> 0,
      rejections |-> 0, streak |-> 0, invalid |-> None, service_limit |-> None, dropped |-> 0,
      included_events |-> 0, skipped_issue_logs |-> 0, skipped_issue_logs_non_numeric |-> 0 ]

NoDebug == [ devsamurai |-> [state |-> "unset"], teamboard |-> [state |-> "unset"] ]

\* The state when get_team_worklog is about to call jira.get_fields: the tracked
\* users are resolved and non-empty.  The upstreams will deliver at most records
\* records and continue a pagination for at most pages pages.
StartAt(label, records, pages) ==
    /\ pc = label
    /\ user_worklog = EmptyWorklog
    /\ debug_out = NoDebug
    /\ result = << >>
    /\ feed = FeedStart
    /\ raw_left = 0
    /\ normalized = << >>
    /\ idx = 0
    /\ legacy = LegacyStart
    /\ tb = TbStart
    /\ settings = [ devsamurai |-> "unread", teamboard |-> "unread" ]
    /\ path = "primary"
    /\ budget = records
    /\ patience = pages

\* The state before jira.get_fields; the window is the one of Window, and no
\* fan-out and no single HTTP call is followed.
Start(records, pages) ==
    /\ StartAt("get_fields", records, pages)
    /\ window = None
    /\ pool = None
    /\ http = None
    /\ access = None

\* Upstreams that deliver records and short paginations.
Init == Start(MaxRecords, MaxPages)

\* Upstreams that deliver no record and keep answering with more pages beyond
\* the caps of the loops.
InitPatient == Start(0, HardCap + ExtraPages)

(***************************************************************************)
(* jira.get_fields(api_prefix): the first authenticated call.              *)
(***************************************************************************)
\* A get_fields failure that is caught like a failure of the primary path: the
\* legacy collector starts.
GetFieldsFailsFallsBack ==
    /\ pc = "get_fields"
    /\ pc' = "legacy_users"
    /\ path' = "legacy"
    /\ UNCHANGED << user_worklog, debug_out, result, feed, raw_left, normalized, idx,
                    legacy, tb, settings, budget, patience, window, pool, http, access >>

GetFieldsFails ==
    /\ pc = "get_fields"
    /\ pc' = "raised"
    /\ UNCHANGED << user_worklog, debug_out, result, feed, raw_left, normalized, idx,
                    legacy, tb, settings, path, budget, patience, window, pool, http, access >>

GetFieldsOk ==
    /\ pc = "get_fields"
    /\ pc' = "find_field"
    /\ UNCHANGED << user_worklog, debug_out, result, feed, raw_left, normalized, idx,
                    legacy, tb, settings, path, budget, patience, window, pool, http, access >>

\* find_field_id(fields, team_field_name): no field of that name, RuntimeError.
FindFieldFails ==
    /\ pc = "find_field"
    /\ pc' = "raised"
    /\ UNCHANGED << user_worklog, debug_out, result, feed, raw_left, normalized, idx,
                    legacy, tb, settings, path, budget, patience, window, pool, http, access >>

\* find_field_id returns the field's id; the window is computed and the
\* aggregates are initialised.
FindFieldOk ==
    /\ pc = "find_field"
    /\ pc' = "feed"
    /\ UNCHANGED << user_worklog, debug_out, result, feed, raw_left, normalized, idx,
                    legacy, tb, settings, path, budget, patience, window, pool, http, access >>

(***************************************************************************)
(* The primary path: _get_worklogs_via_updated, normalisation, merge.      *)
(***************************************************************************)
\* A failure of the primary path that no handler catches: it leaves
\* get_team_worklog.
PrimaryRaisesToCaller ==
    /\ pc' = "raised"
    /\ UNCHANGED << debug_out, result, feed, raw_left, normalized, idx, legacy, tb,
                    settings, path, budget, patience, window, pool, http, access >>

\* `except Exception as e:` of the primary try: the legacy collector starts.
\* user_worklog is left as the primary path made it.
PrimaryRaises ==
    /\ pc' = "legacy_users"
    /\ path' = "legacy"
    /\ feed' = FeedStart
    /\ raw_left' = 0
    /\ normalized' = << >>
    /\ idx' = 0
    /\ UNCHANGED << debug_out, result, legacy, tb, settings, budget, patience, window, pool, http, access >>

\* safety += 1; if safety > 50: break
FeedCapReached ==
    /\ pc = "feed"
    /\ feed.safety + 1 > HardCap
    /\ feed' = [feed EXCEPT !.safety = @ + 1]
    /\ pc' = "hydrate"
    /\ UNCHANGED << user_worklog, debug_out, result, raw_left, normalized, idx,
                    legacy, tb, settings, path, budget, patience, window, pool, http, access >>

\* The request is sent and fails: non-200, or a body the loop cannot read.
FeedRequestFails ==
    /\ pc = "feed"
    /\ feed.safety + 1 <= HardCap
    /\ PrimaryRaises
    /\ UNCHANGED user_worklog

\* The request is sent and a page is answered.
FeedPage ==
    /\ pc = "feed"
    /\ feed.safety + 1 <= HardCap
    /\ \E values \in PageValues, lastPage \in BOOLEAN, until \in UntilValues(feed.since_ms) :
          LET stop == lastPage \/ FeedMustStop(until, feed.since_ms)
              sent == [ feed EXCEPT !.safety = @ + 1,
                                    !.requests = @ + 1,
                                    !.sent = Some(feed.since_ms),
                                    !.answer = Some([lastPage |-> lastPage, until |-> until,
                                                     values |-> values]),
                                    !.worklog_ids = AppendNewIds(@, values) ]
          IN  /\ stop \/ feed.requests + 1 < patience
              /\ feed' = IF stop THEN sent ELSE [sent EXCEPT !.since_ms = until.v]
              /\ pc' = IF stop THEN "hydrate" ELSE "feed"
    /\ UNCHANGED << user_worklog, debug_out, result, raw_left, normalized, idx,
                    legacy, tb, settings, path, budget, patience, window, pool, http, access >>

\* `if not worklog_ids: return []`
HydrateNothing ==
    /\ pc = "hydrate"
    /\ feed.worklog_ids = << >>
    /\ feed' = FeedStart
    /\ raw_left' = 0
    /\ pc' = "normalize"
    /\ UNCHANGED << user_worklog, debug_out, result, normalized, idx, legacy, tb, settings, path, budget, patience, window, pool, http, access >>

\* A loop that steps one short of the chunk size: consecutive chunks overlap.
NextStartOverlapping(i) == i + chunk_size - 1

\* range(0, len(worklog_ids), chunk_size): the value of i after i.
NextStart(i) == i + chunk_size

\* chunk = worklog_ids[i : i + chunk_size], i counted from 0.
Chunk(ids, i) ==
    SubSeq(ids, i + 1, IF i + chunk_size < Len(ids) THEN i + chunk_size ELSE Len(ids))

\* One POST worklog/list for the chunk worklog_ids[i : i + chunk_size] fails.
HydrateChunkFails ==
    /\ pc = "hydrate"
    /\ feed.i < Len(feed.worklog_ids)
    /\ PrimaryRaises
    /\ UNCHANGED user_worklog

\* One POST worklog/list answers a list of n records.
HydrateChunk ==
    /\ pc = "hydrate"
    /\ feed.i < Len(feed.worklog_ids)
    /\ \E n \in 0 .. budget :
          /\ raw_left' = raw_left + n
          /\ budget' = budget - n
    /\ IF NextStart(feed.i) < Len(feed.worklog_ids)
       THEN /\ feed' = [feed EXCEPT !.i = NextStart(@)]
            /\ pc' = "hydrate"
       ELSE /\ feed' = FeedStart
            /\ pc' = "normalize"
    /\ UNCHANGED << user_worklog, debug_out, result, normalized, idx, legacy, tb, settings, path, patience, window, pool, http, access >>

\* One pass of `for wl in raw_worklogs` over a record that is skipped or kept.
NormalizeRecord ==
    /\ pc = "normalize"
    /\ raw_left > 0
    /\ \E wl \in WorklogRecords :
          /\ PrimaryOutcome(wl) # "raise"
          /\ normalized' = IF PrimaryOutcome(wl) = "keep"
                           THEN Append(normalized, PrimaryEntry(wl))
                           ELSE normalized
    /\ raw_left' = raw_left - 1
    /\ UNCHANGED << pc, user_worklog, debug_out, result, feed, idx, legacy, tb, settings, path, budget, patience, window, pool, http, access >>

\* One pass of `for wl in raw_worklogs` over a record that makes the loop raise.
NormalizeRaises ==
    /\ pc = "normalize"
    /\ raw_left > 0
    /\ \E wl \in WorklogRecords : PrimaryOutcome(wl) = "raise"
    /\ PrimaryRaises
    /\ UNCHANGED user_worklog

\* The loop over raw_worklogs ends; the issue metadata is resolved (no lookup
\* raises: _fetch_issue_key_summary catches everything) and the merge loop starts.
NormalizeDone ==
    /\ pc = "normalize"
    /\ raw_left = 0
    /\ idx' = 1
    /\ pc' = "merge"
    /\ UNCHANGED << user_worklog, debug_out, result, feed, raw_left, normalized,
                    legacy, tb, settings, path, budget, patience, window, pool, http, access >>

\* One pass of `for item in normalized` in which the division raises: the seconds
\* are added, no entry is appended, and the primary try's except handler runs.
PrimaryMergeRaises ==
    /\ pc = "merge"
    /\ idx <= Len(normalized)
    /\ MergeOverflows(user_worklog, user_by_account_id(normalized[idx].account_id),
                      normalized[idx])
    /\ user_worklog' = AddSeconds(user_worklog,
                                  user_by_account_id(normalized[idx].account_id),
                                  normalized[idx])
    /\ PrimaryRaises

\* One pass of `for item in normalized`.
PrimaryMerge ==
    /\ pc = "merge"
    /\ idx <= Len(normalized)
    /\ ~MergeOverflows(user_worklog, user_by_account_id(normalized[idx].account_id),
                       normalized[idx])
    /\ user_worklog' = MergeEntry(user_worklog,
                                  user_by_account_id(normalized[idx].account_id),
                                  normalized[idx])
    /\ idx' = idx + 1
    /\ UNCHANGED << pc, debug_out, result, feed, raw_left, normalized, legacy, tb, settings, path, budget, patience, window, pool, http, access >>

PrimaryDone ==
    /\ pc = "merge"
    /\ idx > Len(normalized)
    /\ normalized' = << >>
    /\ idx' = 0
    /\ pc' = "ds_fetch"
    /\ UNCHANGED << user_worklog, debug_out, result, feed, raw_left, legacy, tb, settings, path, budget, patience, window, pool, http, access >>

(***************************************************************************)
(* The legacy collector: the body of the primary try's except handler.     *)
(***************************************************************************)
\* account_ids_to_check = account_ids[:max_users_to_check], of the collector l.
AccountsToCheck(l) == Truncate(l.account_ids, max_users_to_check)

\* What a query that raised came to.
QueryFailed == [ ok |-> FALSE, keys |-> { }, keyless |-> FALSE ]

\* A failing worklogAuthor query whose exception nothing swallows.
LegacyUserQueryFailsRaises ==
    /\ pc = "legacy_users"
    /\ legacy.acc_idx <= Len(AccountsToCheck(legacy))
    /\ legacy' = [legacy EXCEPT !.acc_idx = @ + 1, !.answer = Some(QueryFailed),
                                !.failed = TRUE]
    /\ pc' = "raised"
    /\ UNCHANGED << user_worklog, debug_out, result, feed, raw_left, normalized, idx,
                    tb, settings, path, budget, patience, window, pool, http, access >>

\* One pass of `for account_id in account_ids_to_check`: the worklogAuthor query
\* raises and the exception is swallowed.
LegacyUserQueryFails ==
    /\ pc = "legacy_users"
    /\ legacy.acc_idx <= Len(AccountsToCheck(legacy))
    /\ legacy' = [legacy EXCEPT !.acc_idx = @ + 1, !.answer = Some(QueryFailed),
                                !.failed = TRUE]
    /\ UNCHANGED << pc, user_worklog, debug_out, result, feed, raw_left, normalized, idx,
                    tb, settings, path, budget, patience, window, pool, http, access >>

\* One pass of `for account_id in account_ids_to_check`: the query answers.
LegacyUserQuery ==
    /\ pc = "legacy_users"
    /\ legacy.acc_idx <= Len(AccountsToCheck(legacy))
    /\ \E page \in DiscoveryPages :
          LET answer == Some([ ok |-> TRUE, keys |-> page.keys, keyless |-> page.keyless ])
          IN  legacy' = IF page.keys # { } \/ page.keyless
                        THEN [legacy EXCEPT !.acc_idx = @ + 1,
                                            !.use_worklog_author = TRUE,
                                            !.all_issues_set = @ \cup page.keys,
                                            !.answer = answer]
                        ELSE [legacy EXCEPT !.acc_idx = @ + 1, !.answer = answer]
    /\ UNCHANGED << pc, user_worklog, debug_out, result, feed, raw_left, normalized, idx,
                    tb, settings, path, budget, patience, window, pool, http, access >>

\* A collector that asks the team whenever no per-user query found an issue,
\* keyed or not.
NeedsTeamQueryUnlessAnswered(l) == ~l.use_worklog_author

\* `if not use_worklog_author or not all_issues_set:`
NeedsTeamQuery(l) == ~l.use_worklog_author \/ l.all_issues_set = { }

\* The per-user loop has ended.
LegacyUsersDone ==
    /\ pc = "legacy_users"
    /\ legacy.acc_idx > Len(AccountsToCheck(legacy))
    /\ pc' = IF NeedsTeamQuery(legacy) THEN "legacy_team" ELSE "legacy_fetch"
    /\ legacy' = [legacy EXCEPT !.answer = None, !.failed = FALSE]
    /\ UNCHANGED << user_worklog, debug_out, result, feed, raw_left, normalized, idx,
                    tb, settings, path, budget, patience, window, pool, http, access >>

\* One pass of the team-wide `while True`: search_jql_page raises.  The loop is
\* inside the except handler and under no try: the exception leaves the function.
LegacyTeamPageFails ==
    /\ pc = "legacy_team"
    /\ legacy' = [legacy EXCEPT !.team_requests = @ + 1]
    /\ pc' = "raised"
    /\ UNCHANGED << user_worklog, debug_out, result, feed, raw_left, normalized, idx,
                    tb, settings, path, budget, patience, window, pool, http, access >>

\* One pass of the team-wide `while True`: a page is answered.
LegacyTeamPage ==
    /\ pc = "legacy_team"
    /\ \E page \in DiscoveryPages, token \in { "", "t" } :
          LET empty == page.keys = { } /\ ~page.keyless
              stop == empty \/ token = ""
          IN  /\ stop \/ legacy.team_requests + 1 < patience
              /\ legacy' = IF empty
                           THEN [legacy EXCEPT !.team_requests = @ + 1]
                           ELSE [legacy EXCEPT !.team_requests = @ + 1,
                                               !.all_issues_set = @ \cup page.keys,
                                               !.next_token = token]
              /\ pc' = IF stop THEN "legacy_fetch" ELSE "legacy_team"
    /\ UNCHANGED << user_worklog, debug_out, result, feed, raw_left, normalized, idx,
                    tb, settings, path, budget, patience, window, pool, http, access >>

\* Sets of at most MaxListed elements are listed in every order and their issues'
\* worklogs hold the records in every distribution; of a larger set of issues,
\* numbered 1 .. n, the ascending and the descending order are followed, with
\* the records in the worklog of the first or of the last issue fetched.
MaxListed == 2

\* list(S): the orders in which a set is listed.
ListOrders(S) ==
    LET n == Cardinality(S)
    IN  IF n <= MaxListed THEN Orderings(S)
        ELSE { q \in { [ i \in 1 .. n |-> i ], [ i \in 1 .. n |-> n + 1 - i ] } :
                  { q[i] : i \in 1 .. n } = S }

\* The issues (of the list check) whose worklog each of m delivered records is in.
Deliveries(check, m) ==
    IF Len(check) <= MaxListed THEN [ 1 .. m -> { check[i] : i \in DOMAIN check } ]
    ELSE { [ i \in 1 .. m |-> k ] : k \in { check[1], check[Len(check)] } }

\* A collector that fetches every discovered issue.
IssuesToCheckAll(order) == order

\* issues_to_check = list(all_issues_set)[:max_issues_to_check]
IssuesToCheck(order) == Truncate(order, max_issues_to_check)

\* issues_to_check = list(all_issues_set)[:max_issues_to_check], and the worker
\* pool's fetch_worklog_for_issue for each of them: a fetch that fails yields an
\* empty worklog list, one that succeeds a list of worklogs[k] records.
LegacyFetch ==
    /\ pc = "legacy_fetch"
    /\ \E order \in ListOrders(legacy.all_issues_set) :
          LET check == IssuesToCheck(order)
              keys == { check[i] : i \in DOMAIN check }
          IN  \E m \in 0 .. (IF keys = { } THEN 0 ELSE budget) :
                 \E delivered \in Deliveries(check, m) :
                    LET worklogs == [ k \in keys |->
                                        Cardinality({ i \in 1 .. m : delivered[i] = k }) ]
                    IN  /\ budget' = budget - m
                        /\ legacy' = [legacy EXCEPT !.issues_to_check = check,
                                                    !.issue_worklogs = worklogs,
                                                    !.next_token = "",
                                                    !.team_requests = 0]
    /\ idx' = 1
    /\ pc' = "legacy_merge"
    /\ UNCHANGED << user_worklog, debug_out, result, feed, raw_left, normalized,
                    tb, settings, path, patience, window, pool, http, access >>

\* One pass of `for wl in worklogs` over a record that is skipped or kept.
LegacyMerge ==
    /\ pc = "legacy_merge"
    /\ idx <= Len(legacy.issues_to_check)
    /\ legacy.issue_worklogs[legacy.issues_to_check[idx]] > 0
    /\ \E wl \in WorklogRecords :
          \/ /\ LegacyOutcome(wl) = "skip"
             /\ UNCHANGED user_worklog
             /\ legacy' = [legacy EXCEPT !.issue_worklogs[legacy.issues_to_check[idx]] = @ - 1]
          \/ /\ LegacyOutcome(wl) = "keep"
             /\ ~MergeOverflows(user_worklog, user_by_account_id(wl.author), LegacyEntry(wl))
             /\ user_worklog' = MergeEntry(user_worklog, user_by_account_id(wl.author),
                                           LegacyEntry(wl))
             /\ legacy' = [legacy EXCEPT
                              !.issue_worklogs[legacy.issues_to_check[idx]] = @ - 1,
                              !.appended = Append(@, [ user |-> user_by_account_id(wl.author),
                                                       issue_key |-> legacy.issues_to_check[idx] ])]
    /\ UNCHANGED << pc, debug_out, result, feed, raw_left, normalized, idx,
                    tb, settings, path, budget, patience, window, pool, http, access >>

\* One pass of `for wl in worklogs` over a record that makes the loop raise, before
\* the seconds are added or in the division after it.  Nothing catches it.
LegacyMergeRaises ==
    /\ pc = "legacy_merge"
    /\ idx <= Len(legacy.issues_to_check)
    /\ legacy.issue_worklogs[legacy.issues_to_check[idx]] > 0
    /\ \E wl \in WorklogRecords :
          \/ /\ LegacyOutcome(wl) = "raise"
             /\ UNCHANGED user_worklog
          \/ /\ LegacyOutcome(wl) = "keep"
             /\ MergeOverflows(user_worklog, user_by_account_id(wl.author), LegacyEntry(wl))
             /\ user_worklog' = AddSeconds(user_worklog, user_by_account_id(wl.author),
                                           LegacyEntry(wl))
    /\ pc' = "raised"
    /\ UNCHANGED << debug_out, result, feed, raw_left, normalized, idx,
                    legacy, tb, settings, path, budget, patience, window, pool, http, access >>

\* `for wl in worklogs` of one issue ends: the next pass of `for issue_key in issues_to_check`.
LegacyNextIssue ==
    /\ pc = "legacy_merge"
    /\ idx <= Len(legacy.issues_to_check)
    /\ legacy.issue_worklogs[legacy.issues_to_check[idx]] = 0
    /\ idx' = idx + 1
    /\ UNCHANGED << pc, user_worklog, debug_out, result, feed, raw_left, normalized,
                    legacy, tb, settings, path, budget, patience, window, pool, http, access >>

LegacyDone ==
    /\ pc = "legacy_merge"
    /\ idx > Len(legacy.issues_to_check)
    /\ legacy' = LegacyStart
    /\ idx' = 0
    /\ pc' = "ds_fetch"
    /\ UNCHANGED << user_worklog, debug_out, result, feed, raw_left, normalized,
                    tb, settings, path, budget, patience, window, pool, http, access >>

(***************************************************************************)
(* The hour-based timesheet adapter (DevSamurai).                          *)
(***************************************************************************)
\* _fetch_devsamurai_timelogs returns [] before any request: no JWT (or no base
\* URL).  The loop over dev_logs has nothing to do.
DevNotConfigured ==
    /\ pc = "ds_fetch"
    /\ settings' = [settings EXCEPT !.devsamurai = "missing"]
    /\ debug_out' = [debug_out EXCEPT !.devsamurai = [state |-> "ok", enabled |-> TRUE, count |-> 0]]
    /\ pc' = "tb_fetch"
    /\ UNCHANGED << user_worklog, result, feed, raw_left, normalized, idx, legacy, tb,
                    path, budget, patience, window, pool, http, access >>

\* The POST fails or answers a status other than 200: RuntimeError, caught by
\* the adapter's except handler.
DevRequestFails ==
    /\ pc = "ds_fetch"
    /\ settings' = [settings EXCEPT !.devsamurai = "configured"]
    /\ debug_out' = [debug_out EXCEPT !.devsamurai = [state |-> "error", enabled |-> TRUE, error |-> "http"]]
    /\ pc' = "tb_fetch"
    /\ UNCHANGED << user_worklog, result, feed, raw_left, normalized, idx, legacy, tb,
                    path, budget, patience, window, pool, http, access >>

\* The POST answers 200 with a list of n records.
DevAnswer ==
    /\ pc = "ds_fetch"
    /\ settings' = [settings EXCEPT !.devsamurai = "configured"]
    /\ \E n \in 0 .. budget :
          /\ raw_left' = n
          /\ budget' = budget - n
          /\ debug_out' = [debug_out EXCEPT !.devsamurai = [state |-> "ok", enabled |-> TRUE, count |-> n]]
    /\ pc' = "ds_loop"
    /\ UNCHANGED << user_worklog, result, feed, normalized, idx, legacy, tb, path, patience, window, pool, http, access >>

\* One pass of `for tl in dev_logs` over a record that is skipped or merged.
DevRecord ==
    /\ pc = "ds_loop"
    /\ raw_left > 0
    /\ \E tl \in DevRecords :
          \/ /\ DevOutcome(tl) = "skip"
             /\ UNCHANGED user_worklog
          \/ /\ DevOutcome(tl) = "keep"
             /\ ~MergeOverflows(user_worklog, user_by_account_id(tl.assignee), DevEntry(tl))
             /\ user_worklog' = MergeEntry(user_worklog, user_by_account_id(tl.assignee),
                                           DevEntry(tl))
    /\ raw_left' = raw_left - 1
    /\ UNCHANGED << pc, debug_out, result, feed, normalized, idx, legacy, tb, settings,
                    path, budget, patience, window, pool, http, access >>

\* One pass of `for tl in dev_logs` over a record that makes the loop raise, before
\* the seconds are added or in the division after it: the except handler records
\* the error; what was merged so far stays.
DevRecordRaises ==
    /\ pc = "ds_loop"
    /\ raw_left > 0
    /\ \E tl \in DevRecords :
          \/ /\ DevOutcome(tl) = "raise"
             /\ UNCHANGED user_worklog
          \/ /\ DevOutcome(tl) = "keep"
             /\ MergeOverflows(user_worklog, user_by_account_id(tl.assignee), DevEntry(tl))
             /\ user_worklog' = AddSeconds(user_worklog, user_by_account_id(tl.assignee),
                                           DevEntry(tl))
    /\ debug_out' = [debug_out EXCEPT !.devsamurai = [state |-> "error", enabled |-> TRUE, error |-> "exception"]]
    /\ raw_left' = 0
    /\ pc' = "tb_fetch"
    /\ UNCHANGED << result, feed, normalized, idx, legacy, tb, settings,
                    path, budget, patience, window, pool, http, access >>

DevDone ==
    /\ pc = "ds_loop"
    /\ raw_left = 0
    /\ pc' = "tb_fetch"
    /\ UNCHANGED << user_worklog, debug_out, result, feed, raw_left, normalized, idx,
                    legacy, tb, settings, path, budget, patience, window, pool, http, access >>

(***************************************************************************)
(* The paginated timesheet adapter (Teamboard).                            *)
(***************************************************************************)
\* `except Exception as e:` of the adapter's try; error is str(e).
TbRaises(error) ==
    /\ debug_out' = [debug_out EXCEPT !.teamboard = [state |-> "error", enabled |-> TRUE, error |-> error]]
    /\ raw_left' = 0
    /\ normalized' = << >>
    /\ idx' = 0
    /\ pc' = "sort"

\* _fetch_teamboard_timelogs returns `out` and the filter loop starts;
\* "enabled" is bool(settings.teamboard_bearer_jwt.strip()).
TbReturns(out, enabled) ==
    /\ debug_out' = [debug_out EXCEPT !.teamboard =
                        [state |-> "ok", enabled |-> enabled, count |-> out]]
    /\ raw_left' = out
    /\ pc' = "tb_filter"

\* _fetch_teamboard_timelogs returns [] before any request: no token, or no base URL.
TbNotConfigured ==
    /\ pc = "tb_fetch"
    /\ \E why \in { "missing", "no_base" } :
          /\ settings' = [settings EXCEPT !.teamboard = why]
          /\ TbReturns(0, why # "missing")
    /\ UNCHANGED << user_worklog, result, feed, normalized, idx, legacy, tb,
                    path, budget, patience, window, pool, http, access >>

\* Token, base URL and user ids are there: the request loop starts.
TbConfigured ==
    /\ pc = "tb_fetch"
    /\ settings' = [settings EXCEPT !.teamboard = "configured"]
    /\ \E service_limit \in EchoedLimits : tb' = [TbStart EXCEPT !.service_limit = service_limit]
    /\ pc' = "tb_loop"
    /\ UNCHANGED << user_worklog, debug_out, result, feed, raw_left, normalized, idx, legacy,
                    path, budget, patience, window, pool, http, access >>

\* A loop whose end without a last page is a failure of the adapter.
TbLoopEndsRaises ==
    /\ pc = "tb_loop"
    /\ tb.passes >= HardCap \/ tb.active_user_ids = << >>
    /\ TbRaises("http")
    /\ tb' = [TbStart EXCEPT !.dropped = tb.out]
    /\ UNCHANGED << user_worklog, result, feed, legacy, settings,
                    path, budget, patience, window, pool, http, access >>

\* `for _ in range(50)` is exhausted, or `if not active_user_ids: break`.
TbLoopEnds ==
    /\ pc = "tb_loop"
    /\ tb.passes >= HardCap \/ tb.active_user_ids = << >>
    /\ TbReturns(tb.out, TRUE)
    /\ tb' = TbStart
    /\ UNCHANGED << user_worklog, result, feed, normalized, idx, legacy, settings,
                    path, budget, patience, window, pool, http, access >>

\* The GET fails, or answers a status that is neither 200 nor 403: RuntimeError.
TbRequestFails ==
    /\ pc = "tb_loop"
    /\ tb.passes < HardCap /\ tb.active_user_ids # << >>
    /\ tb' = [TbStart EXCEPT !.dropped = tb.out]
    /\ TbRaises("http")
    /\ UNCHANGED << user_worklog, result, feed, legacy, settings, path, budget, patience, window, pool, http, access >>

\* The GET answers 403 and no invalid id can be parsed from the body: RuntimeError.
TbRejectedWhole ==
    /\ pc = "tb_loop"
    /\ tb.passes < HardCap /\ tb.active_user_ids # << >>
    /\ tb' = [TbStart EXCEPT !.dropped = tb.out]
    /\ TbRaises("http403")
    /\ UNCHANGED << user_worklog, result, feed, legacy, settings, path, budget, patience, window, pool, http, access >>

\* The GET answers 403 and the body names invalid ids: they are removed and the
\* loop continues with the same offset.
TbRejected ==
    /\ pc = "tb_loop"
    /\ tb.passes < HardCap /\ tb.active_user_ids # << >>
    /\ tb.rejections + 1 < patience
    /\ \E invalid \in NamedIds \ { { } } :
          tb' = [tb EXCEPT !.passes = @ + 1,
                           !.rejections = @ + 1,
                           !.streak = IF @ < 2 THEN @ + 1 ELSE @,
                           !.active_user_ids = RemoveInvalid(@, invalid),
                           !.invalid = Some(invalid)]
    /\ UNCHANGED << pc, user_worklog, debug_out, result, feed, raw_left, normalized, idx,
                    legacy, settings, path, budget, patience, window, pool, http, access >>

\* The GET answers 200 with a page of n records and hasMore true.
TbPage ==
    /\ pc = "tb_loop"
    /\ tb.passes < HardCap /\ tb.active_user_ids # << >>
    /\ (tb.passes - tb.rejections) + 1 < patience
    /\ \E n \in 0 .. budget, echoedOffset \in EchoedOffsets(tb.offset) :
          /\ budget' = budget - n
          /\ tb' = [tb EXCEPT !.passes = @ + 1,
                              !.streak = 0,
                              !.invalid = None,
                              !.out = @ + n,
                              !.offset = NextOffset(@, echoedOffset, tb.service_limit)]
    /\ UNCHANGED << pc, user_worklog, debug_out, result, feed, raw_left, normalized, idx,
                    legacy, settings, path, patience, window, pool, http, access >>

\* The GET answers 200 with a page of n records and hasMore false: break.
TbLastPage ==
    /\ pc = "tb_loop"
    /\ tb.passes < HardCap /\ tb.active_user_ids # << >>
    /\ \E n \in 0 .. budget :
          /\ budget' = budget - n
          /\ TbReturns(tb.out + n, TRUE)
    /\ tb' = TbStart
    /\ UNCHANGED << user_worklog, result, feed, normalized, idx, legacy, settings,
                    path, patience, window, pool, http, access >>

\* One pass of `for tl in tb_logs` over a record that is skipped or kept.
TbFilterRecord ==
    /\ pc = "tb_filter"
    /\ raw_left > 0
    /\ \E tl \in TbRecords :
          /\ TbOutcome(tl) # "raise"
          /\ normalized' = IF TbOutcome(tl) = "keep"
                           THEN Append(normalized, TbEntry(tl))
                           ELSE normalized
          /\ tb' = CASE TbOutcome(tl) = "skip_issue" ->
                            [tb EXCEPT !.skipped_issue_logs = @ + 1]
                     [] TbOutcome(tl) = "keep" ->
                            [tb EXCEPT !.included_events = @ + 1,
                                       !.skipped_issue_logs_non_numeric =
                                           IF NonNumericIssueId(tl) THEN @ + 1 ELSE @]
                     [] OTHER -> tb
    /\ raw_left' = raw_left - 1
    /\ UNCHANGED << pc, user_worklog, debug_out, result, feed, idx, legacy, settings,
                    path, budget, patience, window, pool, http, access >>

\* One pass of `for tl in tb_logs` over a record that makes the loop raise.
TbFilterRaises ==
    /\ pc = "tb_filter"
    /\ raw_left > 0
    /\ \E tl \in TbRecords : TbOutcome(tl) = "raise"
    /\ TbRaises("exception")
    /\ tb' = TbStart
    /\ UNCHANGED << user_worklog, result, feed, legacy, settings, path, budget, patience, window, pool, http, access >>

\* The filter loop ends: the counters go to debug_out and the merge loop starts.
TbFilterDone ==
    /\ pc = "tb_filter"
    /\ raw_left = 0
    /\ debug_out' = [debug_out EXCEPT !.teamboard =
                        [state |-> "ok", enabled |-> @.enabled, count |-> @.count,
                         included_events |-> tb.included_events,
                         skipped_issue_logs |-> tb.skipped_issue_logs,
                         skipped_issue_logs_non_numeric |-> tb.skipped_issue_logs_non_numeric]]
    /\ idx' = 1
    /\ pc' = "tb_merge"
    /\ UNCHANGED << user_worklog, result, feed, raw_left, normalized, legacy, tb, settings,
                    path, budget, patience, window, pool, http, access >>

\* One pass of `for item in normalized_tb` in which the division raises: the
\* seconds are added, no entry is appended, and the adapter's except handler runs.
TbMergeRaises ==
    /\ pc = "tb_merge"
    /\ idx <= Len(normalized)
    /\ MergeOverflows(user_worklog, user_by_account_id(normalized[idx].account_id),
                      normalized[idx])
    /\ user_worklog' = AddSeconds(user_worklog,
                                  user_by_account_id(normalized[idx].account_id),
                                  normalized[idx])
    /\ TbRaises("exception")
    /\ tb' = TbStart
    /\ UNCHANGED << result, feed, legacy, settings, path, budget, patience, window, pool, http, access >>

\* One pass of `for item in normalized_tb`.
TbMerge ==
    /\ pc = "tb_merge"
    /\ idx <= Len(normalized)
    /\ ~MergeOverflows(user_worklog, user_by_account_id(normalized[idx].account_id),
                       normalized[idx])
    /\ user_worklog' = MergeEntry(user_worklog,
                                  user_by_account_id(normalized[idx].account_id),
                                  normalized[idx])
    /\ idx' = idx + 1
    /\ UNCHANGED << pc, debug_out, result, feed, raw_left, normalized, legacy, tb, settings,
                    path, budget, patience, window, pool, http, access >>

TbDone ==
    /\ pc = "tb_merge"
    /\ idx > Len(normalized)
    /\ normalized' = << >>
    /\ idx' = 0
    /\ tb' = TbStart
    /\ pc' = "sort"
    /\ UNCHANGED << user_worklog, debug_out, result, feed, raw_left, legacy, settings,
                    path, budget, patience, window, pool, http, access >>

(***************************************************************************)
(* result = sorted(...); return result                                     *)
(***************************************************************************)
Return ==
    /\ pc = "sort"
    /\ result' = SortedUsers(user_worklog)
    /\ pc' = "done"
    /\ UNCHANGED << user_worklog, debug_out, feed, raw_left, normalized, idx, legacy, tb,
                    settings, path, budget, patience, window, pool, http, access >>

Next ==
    \/ GetFieldsFails \/ GetFieldsOk \/ FindFieldFails \/ FindFieldOk
    \/ FeedRequestFails \/ FeedPage
    \/ HydrateNothing \/ HydrateChunkFails \/ HydrateChunk
    \/ NormalizeRecord \/ NormalizeRaises \/ NormalizeDone
    \/ PrimaryMerge \/ PrimaryMergeRaises \/ PrimaryDone
    \/ LegacyUserQueryFails \/ LegacyUserQuery \/ LegacyUsersDone
    \/ LegacyTeamPageFails \/ LegacyTeamPage
    \/ LegacyFetch \/ LegacyMerge \/ LegacyMergeRaises \/ LegacyNextIssue \/ LegacyDone
    \/ DevNotConfigured \/ DevRequestFails \/ DevAnswer
    \/ DevRecord \/ DevRecordRaises \/ DevDone
    \/ TbNotConfigured \/ TbConfigured \/ TbLoopEnds
    \/ TbRequestFails \/ TbRejectedWhole \/ TbRejected \/ TbPage \/ TbLastPage
    \/ TbFilterRecord \/ TbFilterRaises \/ TbFilterDone \/ TbMerge \/ TbMergeRaises \/ TbDone
    \/ Return

Spec == Init /\ [][Next]_vars

(***************************************************************************)
(* The pagination loops against upstreams that never stop paginating.      *)
(***************************************************************************)
\* The change feed, up to the start of the normalisation or of the legacy collector.
NextFeed ==
    \/ GetFieldsFails \/ GetFieldsOk \/ FindFieldFails \/ FindFieldOk
    \/ FeedCapReached \/ FeedRequestFails \/ FeedPage
    \/ HydrateNothing \/ HydrateChunkFails \/ HydrateChunk

SpecFeed == InitPatient /\ [][NextFeed]_vars

\* The legacy discovery after the first change-feed request failed, up to the
\* return of get_team_worklog with both timesheet adapters not configured.
NextLegacy ==
    \/ GetFieldsOk \/ FindFieldOk \/ FeedRequestFails
    \/ LegacyUserQueryFails \/ LegacyUserQuery \/ LegacyUsersDone
    \/ LegacyTeamPageFails \/ LegacyTeamPage
    \/ LegacyFetch \/ LegacyNextIssue \/ LegacyDone
    \/ DevNotConfigured \/ TbNotConfigured \/ TbFilterDone \/ TbDone \/ Return

SpecLegacy == InitPatient /\ [][NextLegacy]_vars

\* The paginated timesheet's request loop after the first change-feed request
\* failed, the legacy discovery found nothing and the hour-based timesheet is
\* not configured.
NextTeamboard ==
    \/ GetFieldsOk \/ FindFieldOk \/ FeedRequestFails
    \/ LegacyUserQueryFails \/ LegacyUsersDone \/ LegacyTeamPage
    \/ LegacyFetch \/ LegacyDone
    \/ DevNotConfigured
    \/ TbConfigured \/ TbLoopEnds
    \/ TbRequestFails \/ TbRejectedWhole \/ TbRejected \/ TbPage \/ TbLastPage
    \/ TbFilterDone \/ TbDone \/ Return

SpecTeamboard == InitPatient /\ [][NextTeamboard]_vars

(***************************************************************************)
(* The date window (lines 225-251), as a function of `days` and of the     *)
(* day datetime.now() falls on.  Days are numbered; day 0 is a Monday.     *)
(***************************************************************************)
\* The days datetime.now() may fall on: FirstNow .. FirstNow + NowSpan.
NowSpan == 13
FirstNow == 14
NowDays == FirstNow .. (FirstNow + NowSpan)

\* days: str | int = 8
DefaultDays == 8

\* date.weekday(): 0 = Monday ... 5 = Saturday, 6 = Sunday
weekday(d) == d % 7

\* The values of `days`: strings (the three named tokens, decimal numerals, other
\* text), ints and None.
DaysValues ==
    [ kind : { "str" },
      text : { "previous_workday", "today", "yesterday", "8", "1", "0", "abc", "" },
      n : { 0 } ]
    \cup [ kind : { "int" }, text : { "" }, n : { 0, 1, DefaultDays } ]
    \cup { [ kind |-> "none", text |-> "", n |-> 0 ] }

\* int(days) for a str: the number a decimal numeral denotes, ValueError (None
\* here) for any other text.
IntOfStr(text) ==
    CASE text = "8" -> Some(8)
      [] text = "1" -> Some(1)
      [] text = "0" -> Some(0)
      [] OTHER -> None

\* The walk that stops on Saturdays.
RECURSIVE WalkBackOverSundays(_)
WalkBackOverSundays(previous_day) ==
    IF weekday(previous_day) > 5 THEN WalkBackOverSundays(previous_day - 1)
    ELSE previous_day

\* while previous_day.weekday() >= 5: previous_day -= timedelta(days=1)
RECURSIVE WalkBack(_)
WalkBack(previous_day) ==
    IF weekday(previous_day) >= 5 THEN WalkBack(previous_day - 1)
    ELSE previous_day

\* The if/elif chain of lines 227-248: the window as [start, end] in days, or
\* None when a statement of the chain raises (int() of a non-numeral, timedelta
\* of None).
ResolveDays(days, now) ==
    IF days.kind = "str" /\ days.text = "previous_workday"
    THEN LET previous_day == WalkBack(now - 1)
         IN  Some([ start |-> previous_day, end |-> previous_day ])
    ELSE IF days.kind = "str" /\ days.text = "today"
    THEN Some([ start |-> now, end |-> now ])
    ELSE IF days.kind = "str" /\ days.text = "yesterday"
    THEN Some([ start |-> now - 1, end |-> now - 1 ])
    ELSE LET days_int == IF days.kind = "str" THEN IntOfStr(days.text)
                         ELSE IF days.kind = "int" THEN Some(days.n)
                         ELSE None
         IN  IF days_int = None THEN None
             ELSE Some([ start |-> now - days_int[1], end |-> now ])

\* get_team_worklog called with some `days` on some day, at line 225.
InitWindow ==
    /\ StartAt("resolve_window", 0, 0)
    /\ window \in [ days : DaysValues, now : NowDays, dates : { None } ]
    /\ pool = None
    /\ http = None
    /\ access = None

\* Lines 225-251 compute start_date and end_date.
ResolveWindow ==
    /\ pc = "resolve_window"
    /\ ResolveDays(window.days, window.now) # None
    /\ window' = [window EXCEPT !.dates = ResolveDays(window.days, window.now)]
    /\ pc' = "window_resolved"
    /\ UNCHANGED << user_worklog, debug_out, result, feed, raw_left, normalized, idx,
                    legacy, tb, settings, path, budget, patience, pool, http, access >>

\* Lines 225-251 raise; no try encloses them, so the exception leaves
\* get_team_worklog.
ResolveWindowRaises ==
    /\ pc = "resolve_window"
    /\ ResolveDays(window.days, window.now) = None
    /\ pc' = "raised"
    /\ UNCHANGED << user_worklog, debug_out, result, feed, raw_left, normalized, idx,
                    legacy, tb, settings, path, budget, patience, window, pool, http, access >>

NextWindow == ResolveWindow \/ ResolveWindowRaises

SpecWindow == InitWindow /\ [][NextWindow]_vars

(***************************************************************************)
(* A fan-out: `with ThreadPoolExecutor(max_workers=10) as ex:` submits one  *)
(* task per ref, the as_completed loop stores each future's result in a    *)
(* table, and the with block ends when every worker has finished.  Refs    *)
(* are numbered in the order of their submission.                          *)
(***************************************************************************)
\* The refs of a fan-out whose tasks fail or succeed one by one: 1 .. MaxRefs.
MaxRefs == 3
\* The tasks a fan-out has beyond the pool's size when the pool is kept busy.
Surplus == 1

\* ThreadPoolExecutor(max_workers=10)
max_workers == 10

\* The three tables filled by a fan-out.
PoolKinds == { "issue_meta", "issue_meta_by_key", "issue_worklogs" }

\* A pool to which the tasks of refs 1 .. n have been submitted.
NewPool(kind, n) ==
    [ kind |-> kind,
      status |-> [ r \in 1 .. n |-> "queued" ],
      table |-> [ r \in 1 .. n |-> None ],
      phase |-> "open" ]

Running(p) == Cardinality({ r \in DOMAIN p.status : p.status[r] = "running" })

\* A pool that gives every task a thread of its own.
CanStartAlways(p) == TRUE

\* The executor starts a queued task only on one of its max_workers threads.
CanStart(p) == Running(p) < max_workers

\* What a task returns when its request succeeds: the issue's (key, summary), or
\* the issue's worklogs and summary.
Answer(kind, r) ==
    IF kind = "issue_worklogs" THEN [ ref |-> r, value |-> "worklogs" ]
    ELSE [ ref |-> r, value |-> "key_summary" ]

\* What a task returns when anything in it raises: (str(ref), str(ref)) from
\* _fetch_issue_key_summary, (issue_key, {"worklogs": []}, issue_key) from
\* fetch_worklog_for_issue.
Placeholder(kind, r) ==
    IF kind = "issue_worklogs" THEN [ ref |-> r, value |-> "no_worklogs" ]
    ELSE [ ref |-> r, value |-> "str_ref" ]

\* fut.result() of a finished task.
FutureResult(p, r) ==
    IF p.status[r] = "returned" THEN Answer(p.kind, r) ELSE Placeholder(p.kind, r)

\* A fan-out of up to MaxRefs refs, just submitted.
InitPool ==
    /\ StartAt("fan_out", 0, 0)
    /\ window = None
    /\ pool \in { NewPool(kind, n) : kind \in PoolKinds, n \in 1 .. MaxRefs }
    /\ http = None
    /\ access = None

\* A fan-out of more refs than the pool has workers.
InitPoolBusy ==
    /\ StartAt("fan_out", 0, 0)
    /\ window = None
    /\ pool \in { NewPool(kind, max_workers + Surplus) : kind \in PoolKinds }
    /\ http = None
    /\ access = None

\* A worker thread takes the oldest queued task.
TaskStart ==
    /\ pc = "fan_out"
    /\ pool.phase = "open"
    /\ CanStart(pool)
    /\ \E r \in DOMAIN pool.status :
          /\ pool.status[r] = "queued"
          /\ \A q \in 1 .. (r - 1) : pool.status[q] # "queued"
          /\ pool' = [pool EXCEPT !.status[r] = "running"]
    /\ UNCHANGED << pc, user_worklog, debug_out, result, feed, raw_left, normalized, idx,
                    legacy, tb, settings, path, budget, patience, window, http, access >>

\* A task that stores its own result in the table from its worker thread.
TaskStoresOwnResult(r) ==
    pool' = [pool EXCEPT !.status[r] = "returned", !.table[r] = Some(Answer(pool.kind, r))]

\* Running task r returns: it has written its local variables only, and its
\* future holds the value.
TaskReturnsAt(r) ==
    pool' = [pool EXCEPT !.status[r] = "returned"]

\* A running task's requests succeed and it returns what they answered.
TaskSucceeds ==
    /\ pc = "fan_out"
    /\ pool.phase = "open"
    /\ \E r \in DOMAIN pool.status :
          /\ pool.status[r] = "running"
          /\ TaskReturnsAt(r)
    /\ UNCHANGED << pc, user_worklog, debug_out, result, feed, raw_left, normalized, idx,
                    legacy, tb, settings, path, budget, patience, window, http, access >>

\* A failure that ends the whole fan-out: nothing is collected after it.
TaskFailsAborts(r) ==
    pool' = [pool EXCEPT !.status[r] = "degraded", !.phase = "exited"]

\* Something raises in running task r: its `except Exception` returns the placeholder.
TaskFailsAt(r) ==
    pool' = [pool EXCEPT !.status[r] = "degraded"]

TaskFails ==
    /\ pc = "fan_out"
    /\ pool.phase = "open"
    /\ \E r \in DOMAIN pool.status :
          /\ pool.status[r] = "running"
          /\ TaskFailsAt(r)
    /\ UNCHANGED << pc, user_worklog, debug_out, result, feed, raw_left, normalized, idx,
                    legacy, tb, settings, path, budget, patience, window, http, access >>

\* One pass of `for fut in as_completed(...)`: some finished future not yet seen
\* is yielded and its result stored under its ref.
Collect ==
    /\ pc = "fan_out"
    /\ pool.phase = "open"
    /\ \E r \in DOMAIN pool.status :
          /\ pool.status[r] \in { "returned", "degraded" }
          /\ pool.table[r] = None
          /\ pool' = [pool EXCEPT !.table[r] = Some(FutureResult(pool, r))]
    /\ UNCHANGED << pc, user_worklog, debug_out, result, feed, raw_left, normalized, idx,
                    legacy, tb, settings, path, budget, patience, window, http, access >>

\* as_completed is exhausted and the with block ends: the merge loop starts.
PoolExit ==
    /\ pc = "fan_out"
    /\ pool.phase = "open"
    /\ \A r \in DOMAIN pool.status : pool.table[r] # None
    /\ pool' = [pool EXCEPT !.phase = "exited"]
    /\ pc' = "merge"
    /\ UNCHANGED << user_worklog, debug_out, result, feed, raw_left, normalized, idx,
                    legacy, tb, settings, path, budget, patience, window, http, access >>

NextPool == TaskStart \/ TaskSucceeds \/ TaskFails \/ Collect \/ PoolExit

SpecPool == InitPool /\ [][NextPool]_vars

\* The workers' side of a fan-out that keeps the pool busy.
NextPoolBusy == TaskStart \/ TaskSucceeds

SpecPoolBusy == InitPoolBusy /\ [][NextPoolBusy]_vars

(***************************************************************************)
(* One outbound HTTP call: Jira.request for the tracker, session.post of   *)
(* _fetch_devsamurai_timelogs, session.get of _fetch_teamboard_timelogs.   *)
(***************************************************************************)
Services == { "jira", "devsamurai", "teamboard" }

\* r.status_code
Statuses == { 200, 401, 403, 429, 500 }

\* The Retry-After header of an answer: absent, a number of seconds, an HTTP date.
RetryAfterValues == { "missing", "0", "3", "date" }

\* int(r.headers.get("Retry-After", "3")): None when int() raises ValueError.
retry_after(header) ==
    CASE header = "missing" -> Some(3)
      [] header = "0" -> Some(0)
      [] header = "3" -> Some(3)
      [] OTHER -> None

\* A call about to be made.
InitHttp ==
    /\ StartAt("http_call", 0, 0)
    /\ window = None
    /\ pool = None
    /\ http \in [ service : Services, attempts : { 0 }, first : { None }, header : { None },
                 slept : { None }, last : { None }, phase : { "ready" } ]
    /\ access = None

\* The request is sent and answered.
HttpSend ==
    /\ pc = "http_call"
    /\ http.phase = "ready"
    /\ \E status \in Statuses, header \in RetryAfterValues :
          http' = [http EXCEPT !.attempts = 1, !.first = Some(status),
                               !.header = Some(header), !.last = Some(status),
                               !.phase = "answered"]
    /\ UNCHANGED << pc, user_worklog, debug_out, result, feed, raw_left, normalized, idx,
                    legacy, tb, settings, path, budget, patience, window, pool, access >>

\* Jira.request, `if r.status_code == 429`: retry_after is read and slept.
JiraSleep ==
    /\ pc = "http_call"
    /\ http.service = "jira"
    /\ http.phase = "answered"
    /\ http.first = Some(429)
    /\ retry_after(http.header[1]) # None
    /\ http' = [http EXCEPT !.slept = retry_after(http.header[1]), !.phase = "slept"]
    /\ UNCHANGED << pc, user_worklog, debug_out, result, feed, raw_left, normalized, idx,
                    legacy, tb, settings, path, budget, patience, window, pool, access >>

\* Jira.request, `if r.status_code == 429`: int() of the header raises, and the
\* ValueError leaves Jira.request.
JiraRetryAfterRaises ==
    /\ pc = "http_call"
    /\ http.service = "jira"
    /\ http.phase = "answered"
    /\ http.first = Some(429)
    /\ retry_after(http.header[1]) = None
    /\ http' = [http EXCEPT !.phase = "raised"]
    /\ UNCHANGED << pc, user_worklog, debug_out, result, feed, raw_left, normalized, idx,
                    legacy, tb, settings, path, budget, patience, window, pool, access >>

\* Jira.request: the same request is sent once more.
JiraResend ==
    /\ pc = "http_call"
    /\ http.phase = "slept"
    /\ \E status \in Statuses :
          http' = [http EXCEPT !.attempts = @ + 1, !.last = Some(status),
                               !.phase = "resent"]
    /\ UNCHANGED << pc, user_worklog, debug_out, result, feed, raw_left, normalized, idx,
                    legacy, tb, settings, path, budget, patience, window, pool, access >>

\* Jira.request: return r
JiraReturn ==
    /\ pc = "http_call"
    /\ http.service = "jira"
    /\ \/ http.phase = "answered" /\ http.first # Some(429)
       \/ http.phase = "resent"
    /\ http' = [http EXCEPT !.phase = "returned"]
    /\ UNCHANGED << pc, user_worklog, debug_out, result, feed, raw_left, normalized, idx,
                    legacy, tb, settings, path, budget, patience, window, pool, access >>

\* The timesheet fetchers look at r.status_code: 200 is read (and a 403 of the
\* paginated service is examined for invalid ids); on anything else they raise
\* RuntimeError.
TimesheetAnswered ==
    /\ pc = "http_call"
    /\ http.service \in { "devsamurai", "teamboard" }
    /\ http.phase = "answered"
    /\ http' = [http EXCEPT !.phase =
                   IF \/ http.last = Some(200)
                      \/ http.service = "teamboard" /\ http.last = Some(403)
                   THEN "returned" ELSE "raised"]
    /\ UNCHANGED << pc, user_worklog, debug_out, result, feed, raw_left, normalized, idx,
                    legacy, tb, settings, path, budget, patience, window, pool, access >>

NextHttp ==
    \/ HttpSend \/ JiraSleep \/ JiraRetryAfterRaises \/ JiraResend \/ JiraReturn
    \/ TimesheetAnswered

SpecHttp == InitHttp /\ [][NextHttp]_vars

(***************************************************************************)
(* Batch hydration of a long id list: the `for i in range(...)` loop of    *)
(* _get_worklogs_via_updated after the change feed has been read.          *)
(***************************************************************************)
\* The collected id lists have 0 .. MaxIds ids.
MaxIds == 2001

\* The change feed has been read and left n ids (the ids 1 .. n).
InitHydrate ==
    /\ \E n \in 0 .. MaxIds :
          feed = [ FeedStart EXCEPT !.worklog_ids = [ k \in 1 .. n |-> k ], !.requests = 1 ]
    /\ pc = "hydrate"
    /\ user_worklog = EmptyWorklog
    /\ debug_out = NoDebug
    /\ result = << >>
    /\ raw_left = 0
    /\ normalized = << >>
    /\ idx = 0
    /\ legacy = LegacyStart
    /\ tb = TbStart
    /\ settings = [ devsamurai |-> "unread", teamboard |-> "unread" ]
    /\ path = "primary"
    /\ budget = 0
    /\ patience = 0
    /\ window = None
    /\ pool = None
    /\ http = None
    /\ access = None

NextHydrate == HydrateNothing \/ HydrateChunkFails \/ HydrateChunk

SpecHydrate == InitHydrate /\ [][NextHydrate]_vars

(***************************************************************************)
(* The issue references of the primary path: the normalisation loop fills  *)
(* issue_ids and issue_keys (lines 464-499) and one lookup is submitted    *)
(* per element (514-525).                                                  *)
(***************************************************************************)
\* Hydrated records whose issue references are followed: 0 .. MaxRaw.
MaxRaw == 2

\* A hydrated record as far as its references matter: whether it passes the
\* filters of lines 469-493, and what _extract_issue_ref_from_worklog returns for
\* it (issue_id: None or an int; issue_key: "" or a key).
RefRecords ==
    [ survives : BOOLEAN, issue_id : { None, Some(1), Some(2) }, issue_key : { "", "K1" } ]

RawLists == UNION { [ 1 .. n -> RefRecords ] : n \in 0 .. MaxRaw }

\* A collection that keeps every reference it is given, repeated ones too.
AddEvery(refs, ref) == Append(refs, ref)

\* set.add: a reference already in the set is not added again.
SetAdd(refs, ref) ==
    IF \E i \in DOMAIN refs : refs[i] = ref THEN refs ELSE Append(refs, ref)

\* raw_worklogs has been returned; issue_ids and issue_keys are empty.
InitRefs ==
    /\ StartAt("collect_refs", 0, 0)
    /\ window = None
    /\ pool \in [ raw : RawLists, at : { 1 }, issue_ids : { << >> }, issue_keys : { << >> },
                 submitted : { << >> } ]
    /\ http = None
    /\ access = None

\* One pass of `for wl in raw_worklogs` as to the references: a record that fails
\* a filter is left by `continue` before line 495; of one that passes, the id
\* (if not None) and the key (if not empty) are added to the sets.
CollectRefs ==
    /\ pc = "collect_refs"
    /\ pool.at <= Len(pool.raw)
    /\ LET wl == pool.raw[pool.at]
           ids == IF wl.survives /\ wl.issue_id # None
                  THEN SetAdd(pool.issue_ids, wl.issue_id[1]) ELSE pool.issue_ids
           keys == IF wl.survives /\ wl.issue_key # ""
                   THEN SetAdd(pool.issue_keys, wl.issue_key) ELSE pool.issue_keys
       IN  pool' = [pool EXCEPT !.at = @ + 1, !.issue_ids = ids, !.issue_keys = keys]
    /\ UNCHANGED << pc, user_worklog, debug_out, result, feed, raw_left, normalized, idx,
                    legacy, tb, settings, path, budget, patience, window, http, access >>

\* The loop has ended: ex.submit(_fetch_issue_key_summary, ref) for every element
\* of issue_ids, then for every element of issue_keys.
SubmitLookups ==
    /\ pc = "collect_refs"
    /\ pool.at > Len(pool.raw)
    /\ pool' = [pool EXCEPT !.submitted =
                   [ i \in DOMAIN pool.issue_ids |-> [ by |-> "id", id |-> pool.issue_ids[i],
                                                       key |-> "" ] ]
                   \o [ i \in DOMAIN pool.issue_keys |-> [ by |-> "key", id |-> 0,
                                                           key |-> pool.issue_keys[i] ] ] ]
    /\ pc' = "lookups_submitted"
    /\ UNCHANGED << user_worklog, debug_out, result, feed, raw_left, normalized, idx,
                    legacy, tb, settings, path, budget, patience, window, http, access >>

NextRefs == CollectRefs \/ SubmitLookups

SpecRefs == InitRefs /\ [][NextRefs]_vars

(***************************************************************************)
(* The legacy collector's discovery for any number of tracked accounts:    *)
(* the per-user loop and the team-wide loop (lines 569-612).               *)
(***************************************************************************)
\* Tracked users with an account id: 0 .. MaxTracked, one more than the
\* collector checks.
MaxTracked == 21

\* The primary path has raised; account_ids holds n accounts, named 1 .. n in
\* the order of `users`.
InitDiscovery ==
    /\ \E n \in 0 .. MaxTracked :
          legacy = [ LegacyStart EXCEPT !.account_ids = [ k \in 1 .. n |-> k ] ]
    /\ pc = "legacy_users"
    /\ user_worklog = EmptyWorklog
    /\ debug_out = NoDebug
    /\ result = << >>
    /\ feed = FeedStart
    /\ raw_left = 0
    /\ normalized = << >>
    /\ idx = 0
    /\ tb = TbStart
    /\ settings = [ devsamurai |-> "unread", teamboard |-> "unread" ]
    /\ path = "legacy"
    /\ budget = 0
    /\ patience = 2
    /\ window = None
    /\ pool = None
    /\ http = None
    /\ access = None

NextDiscovery ==
    \/ LegacyUserQueryFails \/ LegacyUserQuery \/ LegacyUsersDone
    \/ LegacyTeamPageFails \/ LegacyTeamPage

SpecDiscovery == InitDiscovery /\ [][NextDiscovery]_vars

(***************************************************************************)
(* The legacy collector's fetches and merge for few and for many           *)
(* discovered issues (lines 614-689).                                      *)
(***************************************************************************)
\* Discovered issues: 0 .. MaxListed, and max_issues_to_check - 1 .. MaxIssues.
MaxIssues == 301

\* The discovery has ended with the issues 1 .. n; the upstream holds one
\* worklog record.
InitFetch ==
    /\ \E n \in (0 .. MaxListed) \cup ((max_issues_to_check - 1) .. MaxIssues) :
          legacy = [ LegacyStart EXCEPT !.all_issues_set = 1 .. n,
                                        !.use_worklog_author = (n > 0) ]
    /\ pc = "legacy_fetch"
    /\ user_worklog = EmptyWorklog
    /\ debug_out = NoDebug
    /\ result = << >>
    /\ feed = FeedStart
    /\ raw_left = 0
    /\ normalized = << >>
    /\ idx = 0
    /\ tb = TbStart
    /\ settings = [ devsamurai |-> "unread", teamboard |-> "unread" ]
    /\ path = "legacy"
    /\ budget = 1
    /\ patience = 0
    /\ window = None
    /\ pool = None
    /\ http = None
    /\ access = None

NextFetch ==
    LegacyFetch \/ LegacyMerge \/ LegacyMergeRaises \/ LegacyNextIssue \/ LegacyDone

SpecFetch == InitFetch /\ [][NextFetch]_vars

(***************************************************************************)
(* The logged date of a tracker worklog record: `started` is parsed with    *)
(* datetime.fromisoformat and the date is wl_dt.date() (lines 478-493,     *)
(* 659-671).                                                               *)
(***************************************************************************)
\* The UTC offset, in hours, of the zone of datetime.now().
LocalOffset == 3

\* UTC offsets, in hours, a `started` text may carry: Z, +0300 and -0300.
StampOffsets == { 0, 3, -3 }

\* A `started` text: the calendar day and the hour it spells, and its offset.
Stamps == [ day : Days, hour : 0 .. 23, offset : StampOffsets ]

\* The instant a stamp denotes, in hours of UTC.
Instant(st) == st.day * 24 + st.hour - st.offset

\* The text of the same instant with another offset.
Reexpress(st, offset) ==
    LET wall == Instant(st) + offset
    IN  [ day |-> wall \div 24, hour |-> wall % 24, offset |-> offset ]

\* The calendar date of the stamp's instant in the zone of LocalOffset.
DateInLocalZone(st) == (Instant(st) + LocalOffset) \div 24

\* datetime.fromisoformat(date_str).date(): the date fields of the aware
\* datetime, which are those the text spells, in the text's own offset.
LoggedDate(st) == st.day

\* Two records carry the same instant, the second with another offset.
InitStamps ==
    /\ StartAt("parse_started", 0, 0)
    /\ \E st \in Stamps, offset \in StampOffsets :
          window = [ started |-> << st, Reexpress(st, offset) >>, dates |-> None,
                     kept |-> None ]
    /\ pool = None
    /\ http = None
    /\ access = None

\* The date filter of the normalisation loop on either record.
FilterByLoggedDate ==
    /\ pc = "parse_started"
    /\ LET dates == [ i \in 1 .. 2 |-> LoggedDate(window.started[i]) ]
       IN  window' = [window EXCEPT !.dates = Some(dates),
                                    !.kept = Some([ i \in 1 .. 2 |-> ~OutsideWindow(dates[i]) ])]
    /\ pc' = "filtered"
    /\ UNCHANGED << user_worklog, debug_out, result, feed, raw_left, normalized, idx,
                    legacy, tb, settings, path, budget, patience, pool, http, access >>

NextStamps == FilterByLoggedDate

SpecStamps == InitStamps /\ [][NextStamps]_vars

(***************************************************************************)
(* The head of get_team_worklog: the team, the credential's permission and *)
(* the tracked user ids, resolved from the database before any upstream is *)
(* contacted.                                                              *)
(***************************************************************************)

\* The rows the database holds for one invocation: whether db.get(Team, team_id)
\* finds the team, whether a credential_id / an app_user_id was passed, whether a
\* CredentialTeam row grants the team to the credential, the user ids of the
\* team's TeamConfig and TeamMember rows, and the user ids of the CredentialUser
\* rows of the caller.
AccessRows ==
    [ team : BOOLEAN, credential_id : BOOLEAN, allowed : BOOLEAN, app_user_id : BOOLEAN,
      team_config : SUBSET UserIds, team_members : SUBSET UserIds,
      visible : SUBSET UserIds, user_ids : { None } ]

\* user_ids before filtering: the TeamConfig rows of the application user when
\* app_user_id is given, the TeamMember rows of the team otherwise.
MemberIds(a) == IF a.app_user_id THEN a.team_config ELSE a.team_members

\* filter_user_ids: the CredentialUser rows by app_user_id, else by
\* credential_id, else None.
filter_user_ids(a) == IF a.app_user_id \/ a.credential_id THEN Some(a.visible) ELSE None

\* The user ids kept when no filter is applied.
UnfilteredIds(a) == MemberIds(a)

\* user_ids = user_ids.intersection(filter_user_ids) when a filter applies.
FilteredIds(a) ==
    IF filter_user_ids(a) = None THEN MemberIds(a)
    ELSE MemberIds(a) \cap filter_user_ids(a)[1]

\* The four `return []` of the head.
ReturnsEmpty(a) ==
    \/ ~a.team
    \/ a.credential_id /\ ~a.allowed
    \/ MemberIds(a) = {}
    \/ FilteredIds(a) = {}

InitAccess ==
    /\ StartAt("resolve_users", 0, 0)
    /\ window = None
    /\ pool = None
    /\ http = None
    /\ access \in { Some(a) : a \in AccessRows }

\* One of the early returns: the empty list, and nothing else has happened.
ResolveEmpty ==
    /\ pc = "resolve_users"
    /\ ReturnsEmpty(access[1])
    /\ pc' = "done"
    /\ result' = << >>
    /\ UNCHANGED << user_worklog, debug_out, feed, raw_left, normalized, idx,
                    legacy, tb, settings, path, budget, patience, window, pool, http, access >>

\* Some user is tracked: the users are loaded and the tracker is asked for its
\* fields.
ResolveUsers ==
    /\ pc = "resolve_users"
    /\ ~ReturnsEmpty(access[1])
    /\ access' = Some([access[1] EXCEPT !.user_ids = Some(FilteredIds(access[1]))])
    /\ pc' = "get_fields"
    /\ UNCHANGED << user_worklog, debug_out, result, feed, raw_left, normalized, idx,
                    legacy, tb, settings, path, budget, patience, window, pool, http >>

NextAccess == ResolveEmpty \/ ResolveUsers \/ GetFieldsOk \/ GetFieldsFails

SpecAccess == InitAccess /\ [][NextAccess]_vars

(***************************************************************************)
(* Properties.                                                             *)
(***************************************************************************)
Sources == { "devsamurai", "teamboard" }

\* Every entry of every user's aggregate.
AllEntries ==
    UNION { { user_worklog[uid].entries[i] : i \in DOMAIN user_worklog[uid].entries } :
            uid \in UserIds }

RECURSIVE SumSeconds(_)
SumSeconds(entries) ==
    IF entries = << >> THEN 0
    ELSE Head(entries).time_spent_seconds + SumSeconds(Tail(entries))

\* C1: in every state get_team_worklog reaches without having raised to its
\* caller, each user's total_seconds is the sum of time_spent_seconds over the
\* entries then in that user's entries list.
C1_TotalIsSumOfEntries ==
    pc # "raised" =>
        \A uid \in UserIds :
            user_worklog[uid].total_seconds = SumSeconds(user_worklog[uid].entries)

\* C2: every entry of the returned aggregates, whatever its source, has a
\* worklog_date that is present and lies within the window, both ends included.
C2_EveryEntryDatedInWindow ==
    pc = "done" =>
        \A e \in AllEntries :
            /\ e.worklog_date # None
            /\ e.worklog_date[1] >= Window.start
            /\ e.worklog_date[1] <= Window.end

\* C3: when the primary path raises, nothing it contributed remains: the legacy
\* collector starts from aggregates without any entry and with zero seconds, so
\* the tracker stage's output is what the legacy collector alone produces.
C3_NoPrimaryResidue ==
    (path = "legacy" /\ pc = "legacy_users") =>
        \A uid \in UserIds :
            /\ user_worklog[uid].entries = << >>
            /\ user_worklog[uid].total_seconds = 0

\* C4: a record of the paginated timesheet whose issueId is an integer or a string
\* of decimal digits is never passed on to the merge loop, never appears among a
\* user's entries and so never adds to a total, on the primary and on the legacy
\* path alike.
C4_NumericIssueIdNeverCounted ==
    /\ \A e \in AllEntries : e.issue_ref # "numeric"
    /\ pc \in { "tb_filter", "tb_merge" } =>
          \A i \in DOMAIN normalized : normalized[i].issue_ref # "numeric"

\* C4 witness: the function returned after the legacy fallback, the paginated
\* adapter skipped a record for its numeric issueId and counted another one.
C4_Witness ==
    /\ pc = "done"
    /\ path = "legacy"
    /\ debug_out.teamboard.state = "ok"
    /\ debug_out.teamboard.skipped_issue_logs > 0
    /\ \E e \in AllEntries : e.source = "teamboard"

\* C5: once get_fields has succeeded (and the team field was found in its
\* answer), no step of get_team_worklog raises to its caller.
C5_NeverRaisesAfterGetFields ==
    [][pc \notin { "get_fields", "find_field" } => pc' # "raised"]_vars

\* C6: a timesheet adapter that fails for missing credentials adds no entry, has
\* its failure recorded under debug_out["sources"] (an error, or the adapter shown
\* as not enabled), and the function still returns.
C6_AdapterFailureRecorded ==
    pc = "done" =>
        \A a \in Sources :
            settings[a] = "missing" =>
                /\ \A e \in AllEntries : e.source # a
                /\ debug_out[a].state = "error" \/ ~debug_out[a].enabled

\* C7: when a page after the first is rejected with a 403 that names no invalid
\* id, no record of the pages served before is discarded: they still reach the
\* filter and merge loops.
C7_ServedPagesSurviveRejection ==
    (debug_out.teamboard.state = "error" /\ debug_out.teamboard.error = "http403") =>
        tb.dropped = 0

\* b is a with the members of I left out, the rest in a's order.
IsRemainder(a, I, b) ==
    /\ Len(b) = Cardinality({ i \in DOMAIN a : a[i] \notin I })
    /\ \A j \in DOMAIN b : b[j] \notin I
    /\ \E f \in [ DOMAIN b -> DOMAIN a ] :
          /\ \A j \in DOMAIN b : b[j] = a[f[j]]
          /\ \A j, k \in DOMAIN b : j < k => f[j] < f[k]

\* C8: when a request with the id list A at offset o is answered 403 naming the
\* invalid ids I, the loop goes on with exactly the ids of A that are not in I, in
\* A's order, at the same offset and with `out` unchanged; and when the service
\* then serves the last page, its records are returned after those of `out`.
C8_RetryWithRemainingIds ==
    [][ /\ (pc = "tb_loop" /\ pc' = "tb_loop" /\ tb'.rejections > tb.rejections) =>
              /\ tb'.invalid # None
              /\ IsRemainder(tb.active_user_ids, tb'.invalid[1], tb'.active_user_ids)
              /\ tb'.offset = tb.offset
              /\ tb'.out = tb.out
        /\ (pc = "tb_loop" /\ tb.invalid # None /\ pc' = "tb_filter"
                /\ tb.active_user_ids # << >>) =>
              /\ raw_left' = tb.out + (budget - budget')
              /\ debug_out'.teamboard.state = "ok"
      ]_vars

\* C8 witness: after a served page with records, a 403 named one of the two ids
\* of the request; the next request is about to go out with the other id.
C8_Witness ==
    /\ pc = "tb_loop"
    /\ tb.invalid # None
    /\ tb.offset > 0
    /\ tb.out > 0
    /\ Len(tb.active_user_ids) = 1
    /\ tb.passes < HardCap

\* C9: the change-feed loop sends at most 50 requests, and it sends another
\* request only after an answer with lastPage false and an integer `until`
\* greater than the cursor that was sent.
C9_FeedLoopTerminates ==
    /\ feed.requests <= HardCap
    /\ (pc = "feed" /\ feed.answer # None) =>
          /\ ~feed.answer[1].lastPage
          /\ feed.answer[1].until.kind = "int"
          /\ feed.answer[1].until.v > feed.sent[1]

\* C9 witness: the 50th request was answered lastPage false with an `until` that
\* is missing, not an integer or not beyond the cursor, and the loop has stopped.
C9_Witness ==
    /\ pc = "hydrate"
    /\ feed.requests = HardCap
    /\ feed.answer # None
    /\ ~feed.answer[1].lastPage
    /\ feed.answer[1].until.kind = "int" => feed.answer[1].until.v <= feed.sent[1]

\* C10: every pagination loop is bounded by a cap of the program: the change
\* feed, the paginated timesheet and the team-wide discovery by the hard cap of
\* 50 requests, the per-user discovery by the number of users checked.
C10_EveryLoopCapped ==
    /\ feed.requests <= HardCap
    /\ tb.passes <= HardCap
    /\ legacy.acc_idx - 1 <= max_users_to_check
    /\ legacy.team_requests <= HardCap


\* Position of a user in the order in which the aggregates were initialised
\* (for user in users: user_worklog[user.id] = ...).
EnumeratedAt(uid) == CHOOSE i \in DOMAIN users : users[i].id = uid

\* C11: the returned list is ordered by total_seconds non-increasing, and two
\* users of equal total_seconds keep the relative order in which the tracked
\* users were enumerated when their aggregates were initialised.
C11_SortedDescendingAndStable ==
    pc = "done" =>
        \A i, j \in DOMAIN result :
            i < j =>
                /\ user_worklog[result[i]].total_seconds >= user_worklog[result[j]].total_seconds
                /\ user_worklog[result[i]].total_seconds = user_worklog[result[j]].total_seconds
                       => EnumeratedAt(result[i]) < EnumeratedAt(result[j])

\* A returned list in which the sort moved a later user to the front and two
\* users tie behind it.
C11_Witness ==
    /\ pc = "done"
    /\ user_worklog[2].total_seconds > 0
    /\ user_worklog[1].total_seconds = 0
    /\ user_worklog[3].total_seconds = 0
    /\ result = << 2, 1, 3 >>



\* What `for issue_key in issues_to_check` appends when list(all_issues_set) comes
\* out as `order` and every issue's worklogs are answered as they were: the
\* entries of order[1], then those of order[2], ...
RECURSIVE MergedInOrder(_, _)
MergedInOrder(appended, order) ==
    IF order = << >> THEN << >>
    ELSE LET OfHead(e) == e.issue_key = Head(order)
         IN  SelectSeq(appended, OfHead) \o MergedInOrder(appended, Tail(order))

\* The entries of one user among those appended.
AppendedFor(appended, uid) ==
    LET Mine(e) == e.user = uid
    IN  SelectSeq(appended, Mine)

\* C12: two invocations with identical inputs and identical upstream responses
\* return identical aggregates, the order of entries within each user included:
\* whatever order the second invocation's list(all_issues_set) comes out in, its
\* merge loop gives every user the entries in the order this invocation did.
C12_SecondInvocationSameEntries ==
    (pc = "legacy_merge" /\ idx > Len(legacy.issues_to_check)) =>
        \A other \in Orderings(legacy.all_issues_set) :
            \A uid \in UserIds :
                AppendedFor(MergedInOrder(legacy.appended,
                                          Truncate(other, max_issues_to_check)), uid)
                    = AppendedFor(legacy.appended, uid)


\* C13: every entry that is counted (added to a user's total_seconds and appended
\* to the user's entries) has a duration strictly greater than 0 seconds, whatever
\* its source; records of zero, negative or missing duration are never counted.
C13_CountedDurationPositive ==
    \A uid \in UserIds :
        \A i \in DOMAIN user_worklog[uid].entries :
            user_worklog[uid].entries[i].time_spent_seconds > 0


Unrecognized(days) ==
    /\ days.kind # "int"
    /\ ~(days.kind = "str" /\ days.text \in { "previous_workday", "today", "yesterday" })
    /\ ~(days.kind = "str" /\ IntOfStr(days.text) # None)

\* C15: the date-window computation has no error outcome: it never raises, and
\* for a token that is none of today, yesterday, previous_workday and no integer
\* day-count it yields the rolling window of the default number of days.
C15_WindowNeverRaises ==
    /\ pc # "raised"
    /\ (pc = "window_resolved" /\ Unrecognized(window.days))
          => window.dates = Some([ start |-> window.now - DefaultDays, end |-> window.now ])

\* C16: on every weekday, previous_workday resolves to a single-day window whose
\* day is a Monday-to-Friday day strictly before today, the latest such day;
\* evaluated on a Monday, a Sunday or a Saturday it is the preceding Friday.
C16_PreviousWorkday ==
    (pc = "window_resolved" /\ window.days.text = "previous_workday") =>
        LET day == window.dates[1].start
        IN  /\ window.dates[1].end = day
            /\ day < window.now
            /\ weekday(day) \in 0 .. 4
            /\ \A d \in (day + 1) .. (window.now - 1) : weekday(d) \notin 0 .. 4
            /\ weekday(window.now) \in { 0, 5, 6 } => weekday(day) = 4

\* previous_workday resolved on a Monday: the Friday three days before.
C16_Witness ==
    /\ pc = "window_resolved"
    /\ window.days.text = "previous_workday"
    /\ weekday(window.now) = 0
    /\ window.dates = Some([ start |-> window.now - 3, end |-> window.now - 3 ])


\* No request has gone to the change feed, to the legacy discovery or worklog
\* endpoints or to a timesheet service.
NoUpstreamRequest ==
    /\ feed = FeedStart
    /\ legacy = LegacyStart
    /\ tb = TbStart
    /\ settings = [ devsamurai |-> "unread", teamboard |-> "unread" ]
    /\ path = "primary"

\* C17: when the first authenticated call to the tracker (get_fields) fails, the
\* error is propagated to the caller, and no change-feed request, no legacy
\* discovery or worklog request and no timesheet request is issued, then or later.
C17_AuthFailurePropagates ==
    [][ /\ pc = "get_fields"
           => \/ pc' = "find_field"
              \/ pc' = "raised" /\ NoUpstreamRequest'
        /\ pc = "raised" => UNCHANGED vars ]_vars

\* get_fields has failed: the exception has left get_team_worklog and nothing
\* was requested.
C17_Witness ==
    /\ pc = "raised"
    /\ NoUpstreamRequest
    /\ user_worklog = EmptyWorklog


\* C18: at every moment at most 10 fan-out tasks are executing concurrently,
\* however many refs or work items were submitted.
C18_AtMostTenRunning ==
    pool # None => Running(pool) <= 10

\* Ten tasks are running while another one waits for a worker.
C18_Witness ==
    /\ pool # None
    /\ Running(pool) = 10
    /\ \E r \in DOMAIN pool.status : pool.status[r] = "queued"

\* C19: whatever tasks of a fan-out fail and in whatever order the tasks finish,
\* the batch is not aborted: when the merge starts the table holds a result for
\* every submitted ref, the placeholder for each task that failed ((str(ref),
\* str(ref)) or an empty worklog list) and, for each task that succeeded, the
\* answer it would have had with no failing sibling.
C19_FailuresIsolated ==
    (pool # None /\ pool.phase = "exited") =>
        \A r \in DOMAIN pool.status :
            /\ pool.status[r] \in { "returned", "degraded" }
            /\ pool.table[r] = Some(IF pool.status[r] = "degraded"
                                    THEN Placeholder(pool.kind, r)
                                    ELSE Answer(pool.kind, r))

\* A finished fan-out in which the first task failed and a later one succeeded.
C19_Witness ==
    /\ pool # None
    /\ pool.phase = "exited"
    /\ Len(pool.status) = MaxRefs
    /\ pool.status[1] = "degraded"
    /\ pool.status[MaxRefs] = "returned"
    /\ pool.table[1] = Some(Placeholder(pool.kind, 1))
    /\ pool.table[MaxRefs] = Some(Answer(pool.kind, MaxRefs))


\* C20: every outbound call that receives a rate-limit (429) answer is retried
\* exactly once after a pause and never more than once: a call makes at most two
\* attempts, the second only after a 429, and a call whose first answer was 429
\* ends by returning its second answer; for the tracker and for both timesheet
\* services.
C20_RateLimitRetriedOnce ==
    /\ http.attempts <= 2
    /\ http.attempts = 2 => http.first = Some(429)
    /\ (http.phase \in { "returned", "raised" } /\ http.first = Some(429))
          => /\ http.attempts = 2
             /\ http.slept # None
             /\ http.phase = "returned"


\* The positions inside the primary try.
PrimaryPcs == { "feed", "hydrate", "normalize", "merge" }

\* C21: the legacy collector runs if and only if the primary path raised: a
\* failure anywhere in the primary sequence starts the legacy collector (it never
\* leaves get_team_worklog), the collector starts from nowhere else, and while the
\* primary path has not raised no legacy request has been issued.
C21_LegacyIffPrimaryRaised ==
    [][ /\ (pc \in PrimaryPcs /\ path = "primary")
           => \/ pc' \in PrimaryPcs /\ path' = "primary"
              \/ pc' = "ds_fetch" /\ path' = "primary"
              \/ pc' = "legacy_users" /\ path' = "legacy"
        /\ (pc' = "legacy_users" /\ pc # "legacy_users")
           => pc \in PrimaryPcs /\ path = "primary"
        /\ path' = "primary" => legacy' = LegacyStart /\ pc' \notin { "legacy_users",
               "legacy_team", "legacy_fetch", "legacy_merge" } ]_vars

\* The legacy collector is merging worklogs after the primary path raised.
C21_Witness ==
    /\ pc = "legacy_merge"
    /\ path = "legacy"
    /\ legacy.issues_to_check # << >>


\* C22: in the paginated adapter a rejected page is retried once: once the retry
\* of a page has itself been rejected (two rejections in a row at one offset), no
\* further request is sent for that page.
C22_RejectedPageRetriedOnce ==
    [][ (pc = "tb_loop" /\ tb.streak >= 2) => tb'.passes <= tb.passes ]_vars


\* C23: the change-feed cursor makes forward progress: the `since` of every
\* request after the first is strictly greater than the `since` of the request
\* before it.
C23_CursorAdvances ==
    [][ (feed'.requests = feed.requests + 1 /\ feed.sent # None)
            => feed'.sent[1] > feed.sent[1] ]_vars

\* A third request has been sent, each with a later cursor than the one before.
C23_Witness ==
    /\ feed.requests = 3
    /\ feed.sent = Some(InitialSince + 2)


\* The integer ids of a page's values.
IntIds(values) == { values[i].v : i \in { k \in DOMAIN values : values[k].isInt } }

\* The place of the first occurrence of integer id v in a page's values.
FirstAt(values, v) ==
    CHOOSE i \in DOMAIN values :
        /\ values[i].isInt /\ values[i].v = v
        /\ \A k \in 1 .. (i - 1) : ~(values[k].isInt /\ values[k].v = v)

\* C24: after any sequence of change-feed pages the collected id list holds every
\* integer id seen on any page exactly once, in order of first appearance: each
\* page leaves the list as it was and appends the page's integer ids that are not
\* yet in it, once each, in the order they first occur on the page.
C24_IdsOnceInOrderOfAppearance ==
    [][ feed'.requests = feed.requests + 1 =>
          LET old == feed.worklog_ids
              new == feed'.worklog_ids
              values == feed'.answer[1].values
              added == { i \in DOMAIN new : i > Len(old) }
          IN  /\ Len(new) >= Len(old)
              /\ SubSeq(new, 1, Len(old)) = old
              /\ \A i, k \in DOMAIN new : new[i] = new[k] => i = k
              /\ { new[i] : i \in DOMAIN new }
                    = { old[i] : i \in DOMAIN old } \cup IntIds(values)
              /\ \A i, k \in added :
                    i < k => FirstAt(values, new[i]) < FirstAt(values, new[k]) ]_vars

\* Id 2 came on the first page and the second page held 1 and then 2 again: the
\* list is 2, 1.
C24_Witness ==
    /\ feed.requests = 2
    /\ feed.worklog_ids = << 2, 1 >>
    /\ feed.answer # None
    /\ feed.answer[1].values = << [isInt |-> TRUE, v |-> 1], [isInt |-> TRUE, v |-> 2] >>


\* C25: batch hydration partitions the collected id list: every hydrate request
\* carries between 1 and 1000 ids, the first batch starts at the head of the list,
\* each batch starts where the one before it ended (so the batches are disjoint
\* and in list order), the last one ends at the end of the list, and no request
\* is issued for an empty list.
C25_BatchesPartitionIds ==
    [][ pc = "hydrate" =>
          LET ids == feed.worklog_ids
              size == Len(Chunk(ids, feed.i))
          IN  IF ids = << >>
              THEN pc' = "normalize" /\ raw_left' = raw_left
              ELSE /\ size >= 1 /\ size <= 1000
                   /\ Chunk(ids, feed.i) = SubSeq(ids, feed.i + 1, feed.i + size)
                   /\ pc' = "hydrate" => feed'.i = feed.i + size /\ feed'.i < Len(ids)
                   /\ pc' = "normalize" => feed.i + size = Len(ids) ]_vars

\* The third batch of a list of more than 2000 ids is about to be requested.
C25_Witness ==
    /\ pc = "hydrate"
    /\ Len(feed.worklog_ids) > 2000
    /\ feed.i = 2000


\* How many lookups were submitted for a reference.
LookupsOf(ref) ==
    Cardinality({ i \in DOMAIN pool.submitted : pool.submitted[i] = ref })

\* C26: in the primary path every distinct issue id and every distinct issue key
\* found on a record that survived the filters is looked up exactly once,
\* however many records carry it, and nothing is looked up that occurs only on
\* discarded records.
C26_EachRefLookedUpOnce ==
    pc = "lookups_submitted" =>
        LET kept == { i \in DOMAIN pool.raw : pool.raw[i].survives }
            ids == { pool.raw[i].issue_id[1] : i \in { k \in kept : pool.raw[k].issue_id # None } }
            keys == { pool.raw[i].issue_key : i \in { k \in kept : pool.raw[k].issue_key # "" } }
        IN  /\ \A n \in ids : LookupsOf([ by |-> "id", id |-> n, key |-> "" ]) = 1
            /\ \A k \in keys : LookupsOf([ by |-> "key", id |-> 0, key |-> k ]) = 1
            /\ Len(pool.submitted) = Cardinality(ids) + Cardinality(keys)

\* Two surviving records carry issue id 1 and a discarded one carries id 2: one
\* lookup, for id 1.
C26_Witness ==
    /\ pc = "lookups_submitted"
    /\ \E i, k \in DOMAIN pool.raw :
          /\ i < k
          /\ pool.raw[i].survives /\ pool.raw[i].issue_id = Some(1)
          /\ pool.raw[k].survives /\ pool.raw[k].issue_id = Some(1)
    /\ pool.submitted = << [ by |-> "id", id |-> 1, key |-> "" ] >>


\* C27: under every interleaving of the worker tasks the result table and the
\* per-user aggregates are written by the orchestrating thread only (a step of a
\* worker changes nothing but its own task's status), and a ref's entry is
\* written only after that ref's task has completed.
C27_OnlyOrchestratorWrites ==
    [][ pool # None =>
          /\ \A r \in DOMAIN pool.status :
                pool'.table[r] # pool.table[r] =>
                    /\ pool.status[r] \in { "returned", "degraded" }
                    /\ pool'.status = pool.status
          /\ pool'.status # pool.status =>
                /\ pool'.table = pool.table
                /\ user_worklog' = user_worklog
                /\ Cardinality({ r \in DOMAIN pool.status : pool'.status[r] # pool.status[r] }) = 1
          /\ pool.phase = "open" /\ pc' = pc => user_worklog' = user_worklog ]_vars

\* The entry of a finished task has been stored while another task is still
\* running and a third has not started.
C27_Witness ==
    /\ pool # None
    /\ pool.phase = "open"
    /\ Len(pool.status) = MaxRefs
    /\ pool.table[2] # None
    /\ pool.status[1] = "running"
    /\ pool.table[1] = None
    /\ pool.table[3] = None


\* C28: in the legacy collector a per-user discovery query that fails does not
\* stop the collector: the loop goes on to the next user, the work items found
\* so far are kept as they are, and the loop ends only after the query of the
\* last user to check.
C28_UserQueryFailureSwallowed ==
    [][ pc = "legacy_users" =>
          /\ (legacy'.acc_idx # legacy.acc_idx /\ legacy'.answer = Some(QueryFailed)) =>
                /\ pc' = "legacy_users"
                /\ legacy'.acc_idx = legacy.acc_idx + 1
                /\ legacy'.all_issues_set = legacy.all_issues_set
                /\ legacy'.use_worklog_author = legacy.use_worklog_author
          /\ pc' # "legacy_users" => legacy.acc_idx = Len(AccountsToCheck(legacy)) + 1 ]_vars

\* A query has failed, and the query of the last user has since been issued and
\* has found a work item.
C28_Witness ==
    /\ pc = "legacy_users"
    /\ legacy.failed
    /\ legacy.acc_idx = Len(AccountsToCheck(legacy)) + 1
    /\ legacy.answer # None
    /\ legacy.answer[1].ok
    /\ legacy.answer[1].keys # { }

\* C29: the team-wide discovery query is issued if and only if the per-user
\* strategy left the set of discovered work items empty; when a per-user query
\* has put a work item into the set, no team-wide query is issued.
C29_TeamQueryIffNothingFound ==
    [][ /\ (pc = "legacy_users" /\ pc' # "legacy_users") =>
               (pc' = "legacy_team" <=> legacy.all_issues_set = { })
        /\ legacy'.team_requests > legacy.team_requests => pc = "legacy_team"
        /\ pc' = "legacy_team" => pc \in { "legacy_users", "legacy_team" } ]_vars

\* The per-user strategy found a work item and the collector goes on to the
\* fetches without having sent a team-wide query.
C29_Witness ==
    /\ pc = "legacy_fetch"
    /\ path = "legacy"
    /\ legacy.use_worklog_author
    /\ legacy.all_issues_set # { }
    /\ legacy.team_requests = 0

\* C30 as stated: when the per-user strategy ends, a discovery query has been
\* issued for every tracked user that has an account id, however many there are.
C30_EveryTrackedUserQueried ==
    (path = "legacy" /\ pc \in { "legacy_team", "legacy_fetch" }) =>
        legacy.acc_idx - 1 = Len(legacy.account_ids)

\* C30, amended: a discovery query is issued for each of the first
\* max_users_to_check tracked users that have an account id, in their order, and
\* for no other; each answer's work item keys are added to the set of discovered
\* work items, which is so the union of those users' results.
C30_FirstUsersQueried ==
    [][ pc = "legacy_users" =>
          /\ legacy'.acc_idx # legacy.acc_idx =>
                /\ legacy.acc_idx <= Len(legacy.account_ids)
                /\ legacy.acc_idx <= max_users_to_check
                /\ legacy'.acc_idx = legacy.acc_idx + 1
                /\ legacy'.answer # None
                /\ legacy'.all_issues_set = legacy.all_issues_set \cup legacy'.answer[1].keys
          /\ legacy'.acc_idx = legacy.acc_idx => legacy'.all_issues_set = legacy.all_issues_set
          /\ pc' # "legacy_users" =>
                legacy.acc_idx - 1 = IF Len(legacy.account_ids) < max_users_to_check
                                     THEN Len(legacy.account_ids) ELSE max_users_to_check ]_vars

\* More accounts are tracked than the collector checks: the per-user strategy has
\* ended after max_users_to_check queries and has found a work item.
C30_Witness ==
    /\ path = "legacy"
    /\ pc = "legacy_fetch"
    /\ Len(legacy.account_ids) > max_users_to_check
    /\ legacy.acc_idx = max_users_to_check + 1
    /\ legacy.all_issues_set # { }


\* C31: the legacy collector fetches the worklog of at most 300 work items,
\* however many were discovered, each of them a discovered item and none twice,
\* and every entry the collector appends belongs to one of the fetched items.
C31_AtMostThreeHundredFetched ==
    (path = "legacy" /\ pc = "legacy_merge") =>
        LET fetched == { legacy.issues_to_check[i] : i \in DOMAIN legacy.issues_to_check }
        IN  /\ Len(legacy.issues_to_check) <= 300
            /\ Cardinality(fetched) = Len(legacy.issues_to_check)
            /\ fetched \subseteq legacy.all_issues_set
            /\ DOMAIN legacy.issue_worklogs = fetched
            /\ \A i \in DOMAIN legacy.appended : legacy.appended[i].issue_key \in fetched

\* 301 work items were discovered, 300 were fetched and an entry has been
\* appended.
C31_Witness ==
    /\ path = "legacy"
    /\ pc = "legacy_merge"
    /\ Cardinality(legacy.all_issues_set) = 301
    /\ Len(legacy.issues_to_check) = 300
    /\ legacy.appended # << >>


\* C32: the legacy collector's filter accepts exactly the records the primary
\* collector's filter accepts: every entry the legacy path has counted is the
\* entry of a record that the primary path would count too.
C32_LegacyFilterAsPrimary ==
    \A uid \in UserIds :
        \A i \in DOMAIN user_worklog[uid].entries :
            LET entry == user_worklog[uid].entries[i]
            IN  entry.source = "legacy" =>
                    \E wl \in WorklogRecords :
                        /\ LegacyOutcome(wl) = "keep"
                        /\ LegacyEntry(wl) = entry
                        /\ PrimaryOutcome(wl) = "keep"


C34_EventRecordsAlwaysAdded ==
    [][ pc = "ds_loop" =>
          /\ pc' # "ds_loop" => raw_left = 0
          /\ \A uid \in UserIds :
                user_worklog'[uid] # user_worklog[uid] =>
                    \E tl \in DevRecords :
                        /\ DevOutcome(tl) = "keep"
                        /\ user_by_account_id(tl.assignee) = uid
                        /\ DevEntry(tl).issue_ref = "none"
                        /\ user_worklog'[uid].entries =
                               Append(user_worklog[uid].entries, DevEntry(tl))
                        /\ user_worklog'[uid].total_seconds =
                               user_worklog[uid].total_seconds + DevEntry(tl).time_spent_seconds
      ]_vars


\* C35: a paginated-timesheet record whose issueId is non-null and not numeric
\* is kept as an event and flagged: when the adapter ends, the debug channel
\* shows the counter skipped_issue_logs_non_numeric with every record the
\* filter loop has flagged.
C35_NonNumericIssueIdFlagged ==
    [][ (pc \in { "tb_filter", "tb_merge" } /\ pc' = "sort"
            /\ tb.skipped_issue_logs_non_numeric > 0) =>
          /\ debug_out'.teamboard.state = "ok"
          /\ debug_out'.teamboard.skipped_issue_logs_non_numeric =
                 tb.skipped_issue_logs_non_numeric ]_vars


\* C36: every entry in a user's entries comes from a record whose account id is
\* that user's account id, for all four sources; a user without an account id,
\* whom no record can name, keeps a zero total and no entries.
C36_EntriesBelongToTheirUser ==
    \A k \in DOMAIN users :
        LET aggregate == user_worklog[users[k].id]
        IN  /\ \A i \in DOMAIN aggregate.entries :
                  /\ aggregate.entries[i].account_id # ""
                  /\ aggregate.entries[i].account_id = users[k].jira_account_id
            /\ users[k].jira_account_id = "" =>
                  aggregate = [ total_seconds |-> 0, entries |-> << >> ]

\* The invocation has returned with entries of the tracker for one user and of a
\* timesheet for the other.
C36_Witness ==
    /\ pc = "done"
    /\ \E i \in DOMAIN user_worklog[1].entries :
          user_worklog[1].entries[i].source \in { "primary", "legacy" }
    /\ \E i \in DOMAIN user_worklog[2].entries :
          user_worklog[2].entries[i].source \in { "devsamurai", "teamboard" }


\* C37: the logged date of a tracker record is the calendar date of its instant
\* in the engine's fixed local zone, whatever offset the timestamp carries: two
\* timestamps of one instant get the same logged date and the same decision of
\* the window filter.
C37_LoggedDateInFixedZone ==
    pc = "filtered" =>
        /\ Instant(window.started[1]) = Instant(window.started[2])
        /\ window.dates[1][1] = window.dates[1][2]
        /\ window.kept[1][1] = window.kept[1][2]
        /\ \A i \in 1 .. 2 : window.dates[1][i] = DateInLocalZone(window.started[i])


\* C38: in the paginated timesheet adapter every retry that follows a partial
\* rejection goes out with strictly fewer account ids than the rejected request
\* carried, whatever ids the rejection names.
C38_RetryWithFewerIds ==
    [][ (pc = "tb_loop" /\ pc' = "tb_loop" /\ tb'.rejections > tb.rejections
            /\ tb'.active_user_ids # << >> /\ tb'.passes < HardCap) =>
          Len(tb'.active_user_ids) < Len(tb.active_user_ids) ]_vars


\* C39: when the recovery from a partial rejection has removed the last account
\* id, no request is sent for the empty id list: the loop stops and the adapter
\* goes on, without raising, with the records of the pages served so far.
C39_NoRequestForEmptyIdList ==
    [][ (pc = "tb_loop" /\ tb.active_user_ids = << >>) =>
          /\ pc' = "tb_filter"
          /\ raw_left' = tb.out
          /\ budget' = budget
          /\ debug_out'.teamboard = [ state |-> "ok", enabled |-> TRUE, count |-> tb.out ] ]_vars

\* A page with records was served, and a rejection of the next request has then
\* named every account id that was left.
C39_Witness ==
    /\ pc = "tb_loop"
    /\ tb.active_user_ids = << >>
    /\ tb.invalid # None
    /\ tb.out > 0
    /\ tb.offset > 0

\* The effective tracked-user set of the invocation is empty: the team is
\* unknown, the team is not permitted for the given credential, the team has no
\* member, or no member is visible through the caller's credentials.
C40_TrackedSetEmpty ==
    LET a == access[1]
        members == IF a.app_user_id THEN a.team_config ELSE a.team_members
    IN  \/ ~a.team
        \/ a.credential_id /\ ~a.allowed
        \/ members = {}
        \/ (a.app_user_id \/ a.credential_id) /\ members \cap a.visible = {}

\* C40: when the effective tracked-user set is empty, get_team_worklog returns
\* an empty list, and no request has gone to the primary tracker or to either
\* timesheet service; nothing happens after the return.
C40_EmptyTeamAsksNobody ==
    [][ /\ pc = "resolve_users" /\ access # None /\ C40_TrackedSetEmpty
           => pc' = "done" /\ result' = << >> /\ NoUpstreamRequest'
        /\ ~(pc = "done" /\ access # None) ]_vars

\* A team with members none of whom is visible through the caller's credentials
\* has been answered with the empty list.
C40_Witness ==
    /\ pc = "done"
    /\ access # None
    /\ access[1].team
    /\ access[1].credential_id /\ access[1].allowed /\ ~access[1].app_user_id
    /\ access[1].team_members # {}
    /\ access[1].team_members \cap access[1].visible = {}
    /\ result = << >>
    /\ NoUpstreamRequest

=============================================================================
